---- MODULE Spec2Model ----
(***************************************************************************)
(* Dual-source (SQL first, sheet fallback) CRM service layer:              *)
(* CompanyService, AnnouncementService, EventLogService,                   *)
(* OpportunityService and ContactService.                                  *)
(*                                                                         *)
(* Every service operation is one action.  Readers and writers are the    *)
(* injected collaborators of the services: what a reader returns and       *)
(* whether a writer succeeds are inputs of the action, drawn from small    *)
(* sets.  An action records the calls the operation made on its            *)
(* collaborators, in order, and how the operation ended.  The objects and  *)
(* arrays a reader returns are shared with the reader's cache: written     *)
(* holds, by the name of the read, each returned list the operation wrote  *)
(* to in place, as it is afterwards.                                       *)
(*                                                                         *)
(* The operations of a service await their collaborators, and operations   *)
(* of several requests interleave at these awaits.  The specifications of  *)
(* the last part split an operation at its awaits: storeRows is the        *)
(* content of the store the operations write to, and pending holds, per    *)
(* request, what its operation keeps between two of its steps.             *)
(*                                                                         *)
(* Text that the code searches or rewrites (names, phone, address ...) is  *)
(* a sequence of one-character strings; identifiers and categorical        *)
(* values, which the code only tests for emptiness and equality, are       *)
(* strings.  A field a JavaScript object does not have is a key missing    *)
(* from the record's DOMAIN.                                               *)
(***************************************************************************)
EXTENDS Integers, Sequences, FiniteSets, TLC

VARIABLES opName, opInput, calls, outcome, result, error, written, storeRows, pending

vars == <<opName, opInput, calls, outcome, result, error, written, storeRows, pending>>

(***************************************************************************)
(* Bounds                                                                  *)
(***************************************************************************)
\* longest list a company reader returns
MaxCompanies == 2

(***************************************************************************)
(* Calls on collaborators, reader outcomes, operation results              *)
(***************************************************************************)
\* a call without arguments of interest
Call(fn) == [fn |-> fn, row |-> 0, key |-> "", type |-> "", data |-> <<>>]

\* a call addressed by row index (and partition), or by id
CallRow(fn, row, type) ==
    [fn |-> fn, row |-> row, key |-> "", type |-> type, data |-> <<>>]

CallKey(fn, key) == [fn |-> fn, row |-> 0, key |-> key, type |-> "", data |-> <<>>]

\* a row write: the row index and the row that is written
CallData(fn, row, data) == [fn |-> fn, row |-> row, key |-> "", type |-> "", data |-> data]

Called(cs, fn) == \E i \in 1..Len(cs) : cs[i].fn = fn

CountCalls(cs, fn) == Cardinality({i \in 1..Len(cs) : cs[i].fn = fn})

\* what a reader call produced: a list, a thrown error, null, or a
\* non-array object; NotInjected stands for an optional reader the service
\* was constructed without, Unused for a reader whose call the operation
\* did not reach
Threw == [kind |-> "throw", list |-> <<>>]

NotInjected == [kind |-> "absent", list |-> <<>>]

ReturnedNull == [kind |-> "null", list |-> <<>>]

ReturnedObject == [kind |-> "object", list |-> <<>>]

Unused == [kind |-> "unused", list |-> <<>>]

Returned(l) == [kind |-> "list", list |-> l]

\* how a function ended: return value or thrown error, and the calls made
Ok(cs, v) == [calls |-> cs, ok |-> TRUE, val |-> v, err |-> ""]

Throw(cs, e) == [calls |-> cs, ok |-> FALSE, val |-> <<>>, err |-> e]

\* all sequences over S of length at most n
SeqUpTo(S, n) == UNION {[1..k -> S] : k \in 0..n}

\* what a sheet reader call can produce: a thrown error, or a list of at
\* most n of the rows
SheetOutcomes(rows, n) == {Threw} \cup {Returned(l) : l \in SeqUpTo(rows, n)}

\* what the call on an optional SQL reader can produce
SqlOutcomes(rows, n) ==
    {NotInjected, ReturnedNull, ReturnedObject} \cup SheetOutcomes(rows, n)

\* the outcomes of a call the operation makes only when it reaches it
After(reached, outcomes, none) == IF reached THEN outcomes ELSE {none}

Map(F(_), l) == [i \in 1..Len(l) |-> F(l[i])]

(***************************************************************************)
(* JavaScript string primitives over sequences of characters               *)
(***************************************************************************)
toLowerCase(s) ==
    LET upper == <<"A","B","C","D","E","F","G","H","I","J","K","L","M",
                   "N","O","P","Q","R","S","T","U","V","W","X","Y","Z">>
        lower == <<"a","b","c","d","e","f","g","h","i","j","k","l","m",
                   "n","o","p","q","r","s","t","u","v","w","x","y","z">>
        LowerChar(c) ==
            IF \E i \in 1..Len(upper) : upper[i] = c
            THEN lower[CHOOSE i \in 1..Len(upper) : upper[i] = c]
            ELSE c
    IN  [i \in 1..Len(s) |-> LowerChar(s[i])]

RECURSIVE trimStart(_)
trimStart(s) ==
    IF s # <<>> /\ Head(s) \in {" ", "\t", "\n"} THEN trimStart(Tail(s)) ELSE s

RECURSIVE trimEnd(_)
trimEnd(s) ==
    IF s # <<>> /\ s[Len(s)] \in {" ", "\t", "\n"}
    THEN trimEnd(SubSeq(s, 1, Len(s) - 1))
    ELSE s

trim(s) == trimEnd(trimStart(s))

StartsWithAt(s, i, pat) ==
    /\ i + Len(pat) - 1 <= Len(s)
    /\ \A k \in 1..Len(pat) : s[i + k - 1] = pat[k]

includes(s, q) == \E i \in 1..(Len(s) + 1) : StartsWithAt(s, i, q)

(***************************************************************************)
(* CompanyService._normalizeCompanyName                                    *)
(***************************************************************************)
\* s.replace(/<6 chars>|<4 chars>|<2 chars>/g, '') scanning from position i;
\* the alternatives are the legal-entity suffixes, whose six CJK characters
\* are written by their code points: U+80A1 U+4EFD U+6709 U+9650 U+516C U+53F8
RECURSIVE replaceSuffixes(_, _)
replaceSuffixes(s, i) ==
    LET suffixes == << <<"U80A1","U4EFD","U6709","U9650","U516C","U53F8">>,
                       <<"U6709","U9650","U516C","U53F8">>,
                       <<"U516C","U53F8">> >>
        a == CHOOSE x \in 1..Len(suffixes) :
                 /\ StartsWithAt(s, i, suffixes[x])
                 /\ \A y \in 1..(x - 1) : ~StartsWithAt(s, i, suffixes[y])
    IN  IF i > Len(s) THEN <<>>
        ELSE IF \E x \in 1..Len(suffixes) : StartsWithAt(s, i, suffixes[x])
             THEN replaceSuffixes(s, i + Len(suffixes[a]))
             ELSE <<s[i]>> \o replaceSuffixes(s, i + 1)

\* s.replace(/\(.*\)/g, ''), scanning from position i (greedy, leftmost);
\* "." matches no line break
RECURSIVE replaceParens(_, _)
replaceParens(s, i) ==
    LET ParenMatch(j) ==
            /\ i < j /\ j <= Len(s)
            /\ s[i] = "(" /\ s[j] = ")"
            /\ \A k \in (i + 1)..(j - 1) : s[k] # "\n"
        last == CHOOSE x \in 1..Len(s) :
                    ParenMatch(x) /\ \A y \in 1..Len(s) : ParenMatch(y) => y <= x
    IN  IF i > Len(s) THEN <<>>
        ELSE IF \E j \in 1..Len(s) : ParenMatch(j)
             THEN replaceParens(s, last + 1)
             ELSE <<s[i]>> \o replaceParens(s, i + 1)

_normalizeCompanyName(name) ==
    IF name = <<>> THEN <<>>
    ELSE trim(replaceParens(replaceSuffixes(trim(toLowerCase(name)), 1), 1))

(***************************************************************************)
(* CompanyService._toServiceDTO                                            *)
(***************************************************************************)
Has(raw, k) == k \in DOMAIN raw

\* raw.k1 || raw.k2 || ... || '' over text fields
RECURSIVE FirstText(_, _)
FirstText(raw, keys) ==
    IF keys = <<>> THEN <<>>
    ELSE IF Has(raw, Head(keys)) /\ raw[Head(keys)] # <<>>
         THEN raw[Head(keys)]
         ELSE FirstText(raw, Tail(keys))

\* raw.k1 || raw.k2 || ... || '' over identifier and categorical fields
RECURSIVE FirstAtom(_, _)
FirstAtom(raw, keys) ==
    IF keys = <<>> THEN ""
    ELSE IF Has(raw, Head(keys)) /\ raw[Head(keys)] # ""
         THEN raw[Head(keys)]
         ELSE FirstAtom(raw, Tail(keys))

_toServiceDTO_aliasFirst(raw) ==
    LET dto == [companyId        |-> FirstAtom(raw, <<"company_id", "companyId">>),
                companyName      |-> FirstText(raw, <<"company_name", "companyName">>),
                phone            |-> FirstText(raw, <<"phone">>),
                address          |-> FirstText(raw, <<"address">>),
                county           |-> FirstText(raw, <<"city", "county">>),
                introduction     |-> FirstText(raw, <<"description", "introduction">>),
                companyType      |-> FirstAtom(raw, <<"company_type", "companyType">>),
                customerStage    |-> FirstAtom(raw, <<"customer_stage", "customerStage">>),
                engagementRating |-> FirstAtom(raw, <<"interactionRating", "engagementRating">>),
                createdTime      |-> FirstAtom(raw, <<"created_time", "createdTime">>),
                lastUpdateTime   |-> FirstAtom(raw, <<"updated_time", "updatedTime", "lastUpdateTime">>),
                creator          |-> FirstAtom(raw, <<"created_by", "createdBy", "creator">>),
                lastModifier     |-> FirstAtom(raw, <<"updated_by", "updatedBy", "lastModifier">>)]
    IN  IF Has(raw, "rowIndex") THEN dto @@ [rowIndex |-> raw.rowIndex] ELSE dto

_toServiceDTO(raw) ==
    LET dto == [companyId        |-> FirstAtom(raw, <<"companyId", "company_id">>),
                companyName      |-> FirstText(raw, <<"companyName", "company_name">>),
                phone            |-> FirstText(raw, <<"phone">>),
                address          |-> FirstText(raw, <<"address">>),
                county           |-> FirstText(raw, <<"county", "city">>),
                introduction     |-> FirstText(raw, <<"introduction", "description">>),
                companyType      |-> FirstAtom(raw, <<"companyType", "company_type">>),
                customerStage    |-> FirstAtom(raw, <<"customerStage", "customer_stage">>),
                engagementRating |-> FirstAtom(raw, <<"engagementRating", "interactionRating">>),
                createdTime      |-> FirstAtom(raw, <<"createdTime", "created_time">>),
                lastUpdateTime   |-> FirstAtom(raw, <<"lastUpdateTime", "updatedTime", "updated_time">>),
                creator          |-> FirstAtom(raw, <<"creator", "createdBy", "created_by">>),
                lastModifier     |-> FirstAtom(raw, <<"lastModifier", "updatedBy", "updated_by">>)]
    IN  IF Has(raw, "rowIndex") THEN dto @@ [rowIndex |-> raw.rowIndex] ELSE dto

(***************************************************************************)
(* Company rows of the two sources                                         *)
(***************************************************************************)
NameAcme == <<"A", "c", "m", "e">>

NameTech == <<"T", "U516C", "U53F8">>

NameTechNote == <<"t", "(", "T", "W", ")">>

SheetCompanyRows ==
    { [companyId |-> "COMP_1", companyName |-> NameAcme, phone |-> <<"0", "2">>,
       address |-> <<>>, county |-> <<"T", "p">>, introduction |-> <<>>,
       companyType |-> "customer", customerStage |-> "lead",
       engagementRating |-> "A", createdTime |-> "2026-01-01",
       lastUpdateTime |-> "", creator |-> "amy", lastModifier |-> "",
       rowIndex |-> 2],
      [companyId |-> "COMP_2", companyName |-> NameTech, phone |-> <<>>,
       address |-> <<"a", "c">>, county |-> <<"K">>, introduction |-> <<>>,
       companyType |-> "partner", customerStage |-> "lead",
       engagementRating |-> "", createdTime |-> "bad-date",
       lastUpdateTime |-> "", creator |-> "", lastModifier |-> "",
       rowIndex |-> 3] }

SqlCompanyRows ==
    { [company_id |-> "COMP_1", company_name |-> NameAcme, phone |-> <<"0", "2">>,
       city |-> <<"T", "p">>, description |-> <<"m", "e">>,
       company_type |-> "customer", customer_stage |-> "won",
       interactionRating |-> "B", created_time |-> "2026-01-02",
       updated_time |-> "2026-01-03", created_by |-> "amy", updated_by |-> "bob"],
      [company_id |-> "COMP_3", company_name |-> NameTechNote,
       city |-> <<>>, company_type |-> "partner",
       created_time |-> "1970-01-01"] }

(***************************************************************************)
(* CompanyService._getAllCompanies                                         *)
(***************************************************************************)
\* the SQL result is used: sqlRaw && Array.isArray(sqlRaw) && sqlRaw.length > 0
SqlServes_noLengthCheck(sqlOut) == sqlOut.kind = "list"

SqlServes(sqlOut) == sqlOut.kind = "list" /\ Len(sqlOut.list) > 0

_getAllCompanies(sqlOut, sheetOut) ==
    LET sqlCalls == IF sqlOut.kind = "absent" THEN <<>>
                    ELSE <<Call("companySqlReader.getCompanies")>>
    IN  IF SqlServes(sqlOut)
        THEN Ok(sqlCalls, Map(_toServiceDTO, sqlOut.list))
        ELSE LET cs == sqlCalls \o <<Call("companyReader.getCompanyList")>>
             IN  IF sheetOut.kind = "list"
                 THEN Ok(cs, Map(_toServiceDTO, sheetOut.list))
                 ELSE Throw(cs, "sheetError")


(***************************************************************************)
(* Dates: new Date(s).getTime() over the date strings of the model         *)
(***************************************************************************)
\* the strings new Date() cannot parse; getTime() is NaN for them
InvalidDates == {"", "bad-date"}

\* new Date(s).getTime() for a parseable s, in seconds: the code only
\* compares and subtracts these values and tests them against 0
getTime(s) ==
    CASE s = "1969-12-31" -> -86400
      [] s = "1970-01-01" -> 0
      [] s = "2026-01-01" -> 1767225600
      [] s = "2026-01-02" -> 1767312000
      [] s = "2026-01-03" -> 1767398400

\* new Date(ts).toISOString()
toISOString(ts) ==
    CASE ts = -86400     -> "1969-12-31T00:00:00.000Z"
      [] ts = 0          -> "1970-01-01T00:00:00.000Z"
      [] ts = 1767225600 -> "2026-01-01T00:00:00.000Z"
      [] ts = 1767312000 -> "2026-01-02T00:00:00.000Z"
      [] ts = 1767398400 -> "2026-01-03T00:00:00.000Z"

\* Array.prototype.sort (stable) with a consistent comparator Cmp
StableSort(l, Cmp(_, _)) ==
    LET Before(j, i) == \/ Cmp(l[j], l[i]) < 0
                        \/ (Cmp(l[j], l[i]) = 0 /\ j < i)
        pos(i) == 1 + Cardinality({j \in 1..Len(l) : Before(j, i)})
    IN  [k \in 1..Len(l) |-> l[CHOOSE i \in 1..Len(l) : pos(i) = k]]

\* Array.prototype.filter
RECURSIVE FilterIdx(_, _, _)
\* the elements of l at the indices of keep, in order, from index i on
FilterIdx(l, keep, i) ==
    IF i > Len(l) THEN <<>>
    ELSE IF i \in keep THEN <<l[i]>> \o FilterIdx(l, keep, i + 1)
         ELSE FilterIdx(l, keep, i + 1)

Filter(l, T(_)) == FilterIdx(l, {i \in 1..Len(l) : T(l[i])}, 1)

\* Array.prototype.find as an index: the first match, 0 if there is none
FindIndex(l, T(_)) ==
    IF \E i \in 1..Len(l) : T(l[i])
    THEN CHOOSE i \in 1..Len(l) : T(l[i]) /\ \A j \in 1..(i - 1) : ~T(l[j])
    ELSE 0

\* what a writer call produces: a result with success true, a result with
\* success false, or a thrown error
WriterOutcomes == {"ok", "fail", "throw"}

WriterResult(w) == [success |-> (w = "ok")]

(***************************************************************************)
(* AnnouncementService                                                     *)
(***************************************************************************)
\* longest list an announcement reader returns
MaxAnnouncements == 2

\* the status of a published announcement (U+5DF2 U+767C U+5E03)
Published == "published"

SheetAnnouncementRows ==
    { [id |-> "A1", title |-> "t1", status |-> Published, isPinned |-> FALSE,
       lastUpdateTime |-> "2026-01-01", rowIndex |-> 2],
      [id |-> "A2", title |-> "t2", status |-> "draft", isPinned |-> FALSE,
       lastUpdateTime |-> "", rowIndex |-> 3],
      [id |-> "A3", title |-> "t3", status |-> Published, isPinned |-> TRUE,
       lastUpdateTime |-> "", rowIndex |-> 4] }

\* the SQL reader's DTOs carry no rowIndex
SqlAnnouncementRows ==
    { [id |-> "A1", title |-> "t1", status |-> Published, isPinned |-> FALSE,
       lastUpdateTime |-> "2026-01-02"],
      [id |-> "A4", title |-> "t4", status |-> Published, isPinned |-> FALSE,
       lastUpdateTime |-> ""] }

\* the value is what the reader returned, array or not
_fetchInternal(sqlOut, sheetOut) ==
    LET sqlCalls == IF sqlOut.kind = "absent" THEN <<>>
                    ELSE <<Call("announcementSqlReader.getAnnouncements")>>
    IN  IF sqlOut.kind \in {"list", "null", "object"}
        THEN Ok(sqlCalls, sqlOut)
        ELSE LET cs == sqlCalls \o <<Call("announcementReader.getAnnouncements")>>
             IN  IF sheetOut.kind = "throw"
                 THEN Throw(cs, "sheetError")
                 ELSE Ok(cs, sheetOut)

\* the comparator of getAnnouncements: pinned first, then newest first
AnnouncementCmp_oldestFirst(a, b) ==
    IF a.isPinned /\ ~b.isPinned THEN -1
    ELSE IF ~a.isPinned /\ b.isPinned THEN 1
    ELSE LET dateOf(x) == IF x.lastUpdateTime = "" THEN 0 ELSE getTime(x.lastUpdateTime)
         IN  dateOf(a) - dateOf(b)

AnnouncementCmp(a, b) ==
    IF a.isPinned /\ ~b.isPinned THEN -1
    ELSE IF ~a.isPinned /\ b.isPinned THEN 1
    ELSE LET dateOf(x) == IF x.lastUpdateTime = "" THEN 0 ELSE getTime(x.lastUpdateTime)
         IN  dateOf(b) - dateOf(a)

IsPublished(item) == item.status = Published

getAnnouncements(sqlOut, sheetOut) ==
    LET f == _fetchInternal(sqlOut, sheetOut)
    IN  IF ~f.ok THEN f
        ELSE IF f.val.kind # "list" THEN Throw(f.calls, "TypeError")
        ELSE Ok(f.calls, StableSort(Filter(f.val.list, IsPublished), AnnouncementCmp))

createAnnouncement(data, writerOut) ==
    IF data.title = "" THEN Throw(<<>>, "title required")
    ELSE LET cs == <<Call("announcementWriter.createAnnouncement")>>
         IN  IF writerOut = "throw" THEN Throw(cs, "writerError")
             ELSE Ok(cs, WriterResult(writerOut))

NoRowIndex_onlyZero(target) == Has(target, "rowIndex") /\ target.rowIndex = 0

\* if (!target.rowIndex)
NoRowIndex(target) == ~Has(target, "rowIndex") \/ target.rowIndex = 0

\* target.rowIndex as the writer's argument; undefined is recorded as 0
RowIndexOf(target) == IF Has(target, "rowIndex") THEN target.rowIndex ELSE 0

\* the common body of updateAnnouncement and deleteAnnouncement; fn is the
\* writer primitive
AnnouncementWrite(fn, id, sqlOut, sheetOut, writerOut) ==
    LET f == _fetchInternal(sqlOut, sheetOut)
    IN  IF ~f.ok THEN f
        ELSE IF f.val.kind # "list" THEN Throw(f.calls, "TypeError")
        ELSE LET HasId(a) == a.id = id
                 i == FindIndex(f.val.list, HasId)
             IN  IF i = 0 THEN Throw(f.calls, "NotFound")
                 ELSE IF NoRowIndex(f.val.list[i]) THEN Throw(f.calls, "[Forbidden]")
                 ELSE LET cs == f.calls \o <<CallRow(fn, RowIndexOf(f.val.list[i]), "")>>
                      IN  IF writerOut = "throw" THEN Throw(cs, "writerError")
                          ELSE Ok(cs, WriterResult(writerOut))

updateAnnouncement(id, sqlOut, sheetOut, writerOut) ==
    AnnouncementWrite("announcementWriter.updateAnnouncement", id, sqlOut, sheetOut, writerOut)

deleteAnnouncement(id, sqlOut, sheetOut, writerOut) ==
    AnnouncementWrite("announcementWriter.deleteAnnouncement", id, sqlOut, sheetOut, writerOut)


(***************************************************************************)
(* Rows of the readers used in joins                                       *)
(***************************************************************************)
\* longest list a reader returns when it is read for a join or for a check
MaxJoinRows == 1

\* an identifier as text: oppMap.get(id) || id puts an id where a name goes
AsText(id) ==
    CASE id = "OPP1"   -> <<"O", "P", "P", "1">>
      [] id = "OPP2"   -> <<"O", "P", "P", "2">>
      [] id = "OPP9"   -> <<"O", "P", "P", "9">>
      [] id = "COMP_1" -> <<"C", "O", "M", "P", "_", "1">>
      [] id = "COMP_2" -> <<"C", "O", "M", "P", "_", "2">>
      [] id = "COMP_3" -> <<"C", "O", "M", "P", "_", "3">>
      [] id = "COMP_9" -> <<"C", "O", "M", "P", "_", "9">>
      [] id = "E1"     -> <<"E", "1">>
      [] id = "E2"     -> <<"E", "2">>
      [] id = "E3"     -> <<"E", "3">>
      [] id = "E4"     -> <<"E", "4">>
      [] id = ""       -> <<>>

\* obj[k] = v on a clone of obj
SetField(obj, k, v) == [x \in DOMAIN obj \cup {k} |-> IF x = k THEN v ELSE obj[x]]

SheetOpportunityRows ==
    { [opportunityId |-> "OPP1", opportunityName |-> <<"D", "1">>,
       customerCompany |-> NameAcme, currentStage |-> "s1",
       currentStatus |-> "open", assignee |-> "amy", opportunityValue |-> "100",
       expectedCloseDate |-> "2026-01-03", parentOpportunityId |-> "",
       mainContact |-> <<"K">>, lastUpdateTime |-> "2026-01-01", rowIndex |-> 2],
      [opportunityId |-> "OPP2", opportunityName |-> <<>>,
       customerCompany |-> NameTechNote, currentStage |-> "s2",
       currentStatus |-> "open", assignee |-> "", opportunityValue |-> "",
       expectedCloseDate |-> "", parentOpportunityId |-> "OPP1",
       mainContact |-> <<>>, lastUpdateTime |-> "", rowIndex |-> 3] }

InteractionRows ==
    { [companyId |-> "COMP_1", opportunityId |-> "", interactionTime |-> "2026-01-02"],
      [companyId |-> "COMP_2", opportunityId |-> "OPP1", interactionTime |-> "",
       date |-> "bad-date"] }

(***************************************************************************)
(* EventLogService                                                         *)
(***************************************************************************)
\* longest list an event-log reader returns
MaxEvents == 2

\* the sheet keeps one partition per eventType; rowIndex counts within it
SheetEventRows ==
    { [eventId |-> "E1", eventType |-> "Meeting", rowIndex |-> 5,
       createdTime |-> "2026-01-01", opportunityId |-> "OPP1", companyId |-> ""],
      [eventId |-> "E2", eventType |-> "Call", rowIndex |-> 5,
       createdTime |-> "2026-01-03", opportunityId |-> "", companyId |-> "COMP_1"] }

SqlEventRows ==
    { [eventId |-> "E1", id |-> "E1", eventType |-> "Meeting",
       createdTime |-> "2026-01-01", opportunityId |-> "OPP1", companyId |-> ""],
      [eventId |-> "E3", eventType |-> "Call",
       createdTime |-> "", opportunityId |-> "OPP9", companyId |-> "COMP_9"] }

\* map.get(id) || id for map = new Map(rows.map(r => [r[idKey], r[nameKey]])):
\* the last row with that id decides
NameOrId(rows, idKey, nameKey, id) ==
    LET last == CHOOSE i \in 1..Len(rows) :
                    /\ rows[i][idKey] = id
                    /\ \A j \in (i + 1)..Len(rows) : rows[j][idKey] # id
    IN  IF (\E i \in 1..Len(rows) : rows[i][idKey] = id) /\ rows[last][nameKey] # <<>>
        THEN rows[last][nameKey]
        ELSE AsText(id)

\* the clone of one event with id alias and joined names
JoinEvent(raw, opps, comps) ==
    LET e1 == IF (~Has(raw, "id") \/ raw.id = "") /\ raw.eventId # ""
              THEN SetField(raw, "id", raw.eventId) ELSE raw
        e2 == IF e1.opportunityId # ""
              THEN SetField(e1, "opportunityName",
                            NameOrId(opps, "opportunityId", "opportunityName", e1.opportunityId))
              ELSE e1
    IN  IF e2.companyId # ""
        THEN SetField(e2, "companyName",
                      NameOrId(comps, "companyId", "companyName", e2.companyId))
        ELSE e2

\* the SQL result is used: Array.isArray(events)
SqlEventsServe(sqlOut) == sqlOut.kind = "list"

\* the reads of getAllEvents up to the events list
EventsRead(sqlOut, sheetOut) ==
    LET sqlCalls == IF sqlOut.kind = "absent" THEN <<>>
                    ELSE <<Call("eventLogSqlReader.getEventLogs")>>
    IN  IF SqlEventsServe(sqlOut) THEN Ok(sqlCalls, sqlOut.list)
        ELSE LET cs == sqlCalls \o <<Call("eventReader.getEventLogs")>>
             IN  IF sheetOut.kind = "list" THEN Ok(cs, sheetOut.list)
                 ELSE Throw(cs, "sheetError")

getAllEvents_rethrow(sqlOut, sheetOut, oppOut, compOut) ==
    LET ev == EventsRead(sqlOut, sheetOut)
    IN  IF ~ev.ok THEN ev
        ELSE LET cs == ev.calls \o <<Call("oppReader.getOpportunities"),
                                     Call("companyReader.getCompanyList")>>
             IN  IF oppOut.kind # "list" \/ compOut.kind # "list"
                 THEN Throw(cs, "joinError")
                 ELSE LET J(raw) == JoinEvent(raw, oppOut.list, compOut.list)
                      IN  Ok(cs, Map(J, ev.val))

\* every error is caught and answered with []
getAllEvents(sqlOut, sheetOut, oppOut, compOut) ==
    LET ev == EventsRead(sqlOut, sheetOut)
    IN  IF ~ev.ok THEN Ok(ev.calls, <<>>)
        ELSE LET cs == ev.calls \o <<Call("oppReader.getOpportunities"),
                                     Call("companyReader.getCompanyList")>>
             IN  IF oppOut.kind # "list" \/ compOut.kind # "list"
                 THEN Ok(cs, <<>>)
                 ELSE LET J(raw) == JoinEvent(raw, oppOut.list, compOut.list)
                      IN  Ok(cs, Map(J, ev.val))


(***************************************************************************)
(* CompanyService.getCompanyListWithActivity                               *)
(***************************************************************************)
\* JavaScript null
Null == "<null>"

\* the filters the controller builds from the query string; '' stands for
\* a missing filter
CompanyFilters ==
    { [q |-> <<>>, type |-> "", stage |-> "", rating |-> ""],
      [q |-> <<" ", "A", "C">>, type |-> "all", stage |-> "", rating |-> ""],
      [q |-> <<"p">>, type |-> "customer", stage |-> "lead", rating |-> ""],
      [q |-> <<>>, type |-> "partner", stage |-> "all", rating |-> "A"] }

\* Step 1: the free-text test on five fields, and the three categorical
\* filters, each skipped when missing or 'all'
MatchesFilters(c, filters) ==
    LET q == trim(toLowerCase(filters.q))
        MatchesCategory(value, wanted) ==
            wanted = "" \/ wanted = "all" \/ value = wanted
    IN  /\ filters.q # <<>>
           => \/ includes(toLowerCase(c.companyName), q)
              \/ includes(c.phone, q)
              \/ includes(toLowerCase(c.address), q)
              \/ includes(toLowerCase(c.county), q)
              \/ includes(toLowerCase(c.introduction), q)
        /\ MatchesCategory(c.companyType, filters.type)
        /\ MatchesCategory(c.customerStage, filters.stage)
        /\ MatchesCategory(c.engagementRating, filters.rating)

\* updateActivity(companyId, dateStr) on the map of last activities
updateActivity(map, companyId, dateStr) ==
    IF companyId = "" \/ dateStr = "" THEN map
    ELSE IF dateStr \in InvalidDates THEN map
    ELSE LET ts == getTime(dateStr)
             current == IF companyId \in DOMAIN map THEN map[companyId] ELSE 0
         IN  IF ts > current THEN SetField(map, companyId, ts) ELSE map

\* items.forEach(item => updateActivity(item.companyId, <first of dateKeys>))
RECURSIVE forEachActivity(_, _, _, _)
forEachActivity(map, items, dateKeys, i) ==
    IF i > Len(items) THEN map
    ELSE forEachActivity(
             updateActivity(map, FirstAtom(items[i], <<"companyId">>),
                            FirstAtom(items[i], dateKeys)),
             items, dateKeys, i + 1)

lastActivityMap(interactions, eventLogs) ==
    forEachActivity(forEachActivity(<<>>, interactions, <<"interactionTime", "date">>, 1),
                    eventLogs, <<"createdTime">>, 1)

\* Step 3 for one company: lastTs is [defined, ts], from the map or else
\* from a parseable createdTime
WithActivity(comp, map) ==
    LET last == IF comp.companyId \in DOMAIN map /\ map[comp.companyId] # 0
                THEN [defined |-> TRUE, ts |-> map[comp.companyId]]
                ELSE IF comp.createdTime # "" /\ comp.createdTime \notin InvalidDates
                     THEN [defined |-> TRUE, ts |-> getTime(comp.createdTime)]
                     ELSE [defined |-> FALSE, ts |-> 0]
    IN  SetField(SetField(comp, "lastActivity",
                          IF last.defined /\ last.ts # 0
                          THEN toISOString(last.ts) ELSE Null),
                 "_sortTs", IF last.defined THEN last.ts ELSE 0)

\* the try block of getCompanyListWithActivity
CompanyListTry(filters, sqlOut, sheetOut, interOut, evOut) ==
    LET a == _getAllCompanies(sqlOut, sheetOut)
    IN  IF ~a.ok THEN a
        ELSE LET cs == a.calls \o <<Call("interactionReader.getInteractions"),
                                    Call("eventLogReader.getEventLogs")>>
                 F(c) == MatchesFilters(c, filters)
                 map == lastActivityMap(interOut.list, evOut.list)
                 W(c) == WithActivity(c, map)
                 ActivityCmp(x, y) == y["_sortTs"] - x["_sortTs"]
                 WithoutSortTs(r) == [x \in DOMAIN r \ {"_sortTs"} |-> r[x]]
             IN  IF interOut.kind # "list" \/ evOut.kind # "list"
                 THEN Throw(cs, "readError")
                 ELSE Ok(cs, Map(WithoutSortTs,
                                 StableSort(Map(W, Filter(a.val, F)), ActivityCmp)))

\* any error of the try block is answered from a second sheet read, and []
\* when that read fails too
getCompanyListWithActivity(filters, sqlOut, sheetOut, interOut, evOut, retryOut) ==
    LET t == CompanyListTry(filters, sqlOut, sheetOut, interOut, evOut)
    IN  IF t.ok THEN t
        ELSE LET cs == t.calls \o <<Call("companyReader.getCompanyList")>>
             IN  IF retryOut.kind = "list"
                 THEN Ok(cs, Map(_toServiceDTO, retryOut.list))
                 ELSE Ok(cs, <<>>)

(***************************************************************************)
(* ContactService: official contacts                                       *)
(***************************************************************************)
\* longest list a contact reader returns
MaxContacts == 2

SheetContactRows ==
    { [contactId |-> "C1", name |-> <<"K">>, companyId |-> "COMP_1",
       position |-> <<"C", "E", "O">>, rowIndex |-> 2],
      [contactId |-> "C2", name |-> <<"L">>, companyId |-> "",
       position |-> <<>>, rowIndex |-> 3] }

SqlContactRows ==
    { [contactId |-> "C1", name |-> <<"K">>, companyId |-> "COMP_1",
       jobTitle |-> <<"C", "T", "O">>],
      [contactId |-> "C3", name |-> <<"M">>, companyId |-> "COMP_9",
       position |-> <<"P", "M">>] }

_mapSqlContact(contact) ==
    SetField(contact, "position", FirstText(contact, <<"jobTitle", "position">>))

\* the SQL contacts are used: a non-empty array came back
SqlContactsServe(forceSheet, sqlOut) ==
    ~forceSheet /\ sqlOut.kind = "list" /\ Len(sqlOut.list) > 0

\* steps 1 and 2 of _fetchOfficialContactsWithCompanies
OfficialContactsRead(forceSheet, sqlOut, coreOut) ==
    LET sqlCalls == IF forceSheet \/ sqlOut.kind = "absent" THEN <<>>
                    ELSE <<Call("contactSqlReader.getContacts")>>
    IN  IF SqlContactsServe(forceSheet, sqlOut)
        THEN Ok(sqlCalls, Map(_mapSqlContact, sqlOut.list))
        ELSE IF coreOut.kind = "absent"
             THEN Throw(sqlCalls, "contactCoreReader not configured")
             ELSE LET cs == sqlCalls \o <<Call("contactCoreReader.getContactList")>>
                  IN  IF coreOut.kind = "list" THEN Ok(cs, coreOut.list)
                      ELSE Throw(cs, "sheetError")

_fetchOfficialContactsWithCompanies(forceSheet, sqlOut, coreOut, compOut) ==
    LET r == OfficialContactsRead(forceSheet, sqlOut, coreOut)
    IN  IF ~r.ok THEN r
        ELSE LET cs == r.calls \o <<Call("companyReader.getCompanyList")>>
                 M(contact) ==
                     SetField(contact, "companyName",
                              NameOrId(compOut.list, "companyId", "companyName",
                                       contact.companyId))
             IN  IF compOut.kind # "list" THEN Throw(cs, "sheetError")
                 ELSE Ok(cs, Map(M, r.val))

\* fail-safe: any error is answered with []
getAllOfficialContacts(sqlOut, coreOut, compOut) ==
    LET r == _fetchOfficialContactsWithCompanies(FALSE, sqlOut, coreOut, compOut)
    IN  IF r.ok THEN r ELSE Ok(r.calls, <<>>)


(***************************************************************************)
(* Mutations: row indices, writers and the cache-invalidation hook         *)
(***************************************************************************)
\* JavaScript undefined, for a property an object does not have
Undefined == "<undefined>"

\* the value of a decimal digit, -1 for any other character
DigitValue(c) ==
    CASE c = "0" -> 0 [] c = "1" -> 1 [] c = "2" -> 2 [] c = "3" -> 3
      [] c = "4" -> 4 [] c = "5" -> 5 [] c = "6" -> 6 [] c = "7" -> 7
      [] c = "8" -> 8 [] c = "9" -> 9 [] OTHER -> -1

RECURSIVE parseDigits(_, _, _)
parseDigits(s, i, acc) ==
    IF i > Len(s) \/ DigitValue(s[i]) < 0 THEN acc
    ELSE parseDigits(s, i + 1, acc * 10 + DigitValue(s[i]))

\* parseInt of a decimal string: leading white space and a sign are
\* skipped, the digits up to the first other character are read, and the
\* result is NaN when there is no digit (the inputs carry no 0x prefix)
parseInt(str) ==
    LET s == trimStart(str)
        signed == s # <<>> /\ s[1] \in {"-", "+"}
        from == IF signed THEN 2 ELSE 1
    IN  IF from > Len(s) \/ DigitValue(s[from]) < 0 THEN [nan |-> TRUE, n |-> 0]
        ELSE [nan |-> FALSE,
              n |-> (IF signed /\ s[1] = "-" THEN -1 ELSE 1) * parseDigits(s, from, 0)]

\* the rowIndex arguments of the row-addressed operations
RowIndexInputs == { <<"2">>, <<" ", "3", "x">>, <<"9">>, <<"x">> }

\* o.rowIndex === parseInt(rowIndex)
RowIs(o, rowIndex) ==
    /\ Has(o, "rowIndex")
    /\ ~parseInt(rowIndex).nan
    /\ o.rowIndex = parseInt(rowIndex).n

\* if (reader.invalidateCache) reader.invalidateCache(key)
Invalidate(hasInvalidate, fn) == IF hasInvalidate THEN <<Call(fn)>> ELSE <<>>

(***************************************************************************)
(* OpportunityService                                                      *)
(***************************************************************************)
\* longest list the sheet opportunity reader returns
MaxOpportunities == 2

SqlOpportunityRows ==
    { [opportunityId |-> "OPP1", opportunityName |-> <<"D", "1">>,
       customerCompany |-> NameAcme, currentStage |-> "s2"],
      [opportunityId |-> "OPP9", opportunityName |-> <<"D", "9">>,
       customerCompany |-> <<>>, currentStage |-> "s1"] }

_fetchOpportunities_ignoreForce(forceSheet, sqlOut, sheetOut) ==
    LET sqlCalls == IF sqlOut.kind = "absent" THEN <<>>
                    ELSE <<Call("opportunitySqlReader.getOpportunities")>>
    IN  IF sqlOut.kind = "list" /\ Len(sqlOut.list) > 0
        THEN Ok(sqlCalls, sqlOut.list)
        ELSE LET cs == sqlCalls \o <<Call("opportunityReader.getOpportunities")>>
             IN  IF sheetOut.kind = "list" THEN Ok(cs, sheetOut.list)
                 ELSE Throw(cs, "sheetError")

\* SQL first unless forceSheet; the sheet when SQL gave no non-empty array
_fetchOpportunities(forceSheet, sqlOut, sheetOut) ==
    LET sqlCalls == IF forceSheet \/ sqlOut.kind = "absent" THEN <<>>
                    ELSE <<Call("opportunitySqlReader.getOpportunities")>>
    IN  IF ~forceSheet /\ sqlOut.kind = "list" /\ Len(sqlOut.list) > 0
        THEN Ok(sqlCalls, sqlOut.list)
        ELSE LET cs == sqlCalls \o <<Call("opportunityReader.getOpportunities")>>
             IN  IF sheetOut.kind = "list" THEN Ok(cs, sheetOut.list)
                 ELSE Throw(cs, "sheetError")

createOpportunity(writerOut, hasInvalidate) ==
    LET cs == <<Call("opportunityWriter.createOpportunity")>>
    IN  IF writerOut = "throw" THEN Throw(cs, "writerError")
        ELSE Ok(cs \o Invalidate(hasInvalidate, "opportunityReader.invalidateCache"),
                WriterResult(writerOut))

\* the updateData of updateOpportunity
OpportunityUpdates ==
    { [opportunityName |-> <<"D">>],
      [currentStage |-> "s2", assignee |-> "amy"],
      [opportunityValue |-> "", expectedCloseDate |-> "2026-01-03"] }

\* the changes updateOpportunity writes to the interaction log
UpdateLogs(original, updateData) ==
    LET Get(obj, k) == IF Has(obj, k) THEN obj[k] ELSE Undefined
        Truthy(v) == v \notin {"", Undefined, Null}
        Changed(k) == Has(updateData, k) /\ updateData[k] # Get(original, k)
    IN  (IF Truthy(Get(updateData, "currentStage"))
            /\ Truthy(Get(original, "currentStage")) /\ Changed("currentStage")
         THEN <<"currentStage">> ELSE <<>>)
        \o (IF Changed("opportunityValue") THEN <<"opportunityValue">> ELSE <<>>)
        \o (IF Changed("assignee") THEN <<"assignee">> ELSE <<>>)
        \o (IF Changed("expectedCloseDate") THEN <<"expectedCloseDate">> ELSE <<>>)

\* the target of a row-addressed opportunity write: [found, row]
OpportunityTarget(rowIndex, sqlOut, sheetOut) ==
    LET T(o) == RowIs(o, rowIndex)
        At(r, i) == IF i > 0 THEN [found |-> TRUE, row |-> r.val[i]]
                    ELSE [found |-> FALSE, row |-> <<>>]
        Find(r) == IF r.ok THEN At(r, FindIndex(r.val, T))
                   ELSE [found |-> FALSE, row |-> <<>>]
    IN  Find(_fetchOpportunities(TRUE, sqlOut, sheetOut))

\* the writer is handed the rowIndex argument; the call records its number
updateOpportunity(rowIndex, updateData, sqlOut, sheetOut, configOut, writerOut, hasInvalidate, logOut) ==
    LET Update(r, t) ==
            LET cs1 == r.calls \o <<Call("systemReader.getSystemConfig")>>
                cs2 == cs1 \o <<CallRow("opportunityWriter.updateOpportunity",
                                        parseInt(rowIndex).n, "")>>
                cs3 == cs2 \o Invalidate(hasInvalidate, "opportunityReader.invalidateCache")
            IN  IF ~r.ok THEN r
                ELSE IF ~t.found THEN Throw(r.calls, "notFound")
                ELSE IF configOut.kind = "throw" THEN Throw(cs1, "configError")
                ELSE IF configOut.kind = "null" THEN Throw(cs1, "TypeError")
                ELSE IF writerOut = "throw" THEN Throw(cs2, "writerError")
                ELSE IF UpdateLogs(t.row, updateData) # <<>>
                     THEN Ok(cs3 \o <<CallKey("interactionWriter.createInteraction",
                                              t.row.opportunityId)>>,
                             WriterResult(writerOut))
                     ELSE Ok(cs3, WriterResult(writerOut))
    IN  Update(_fetchOpportunities(TRUE, sqlOut, sheetOut),
               OpportunityTarget(rowIndex, sqlOut, sheetOut))

\* the company of a deleted opportunity, by lower-cased trimmed name: an
\* index into comps, 0 if there is none
CompanyOfOpportunity(comps, opportunity) ==
    LET T(c) == trim(toLowerCase(c.companyName))
                    = trim(toLowerCase(opportunity.customerCompany))
    IN  FindIndex(comps, T)

deleteOpportunity(rowIndex, sqlOut, sheetOut, writerOut, hasInvalidate, compOut, logOut) ==
    LET Log(cs3, i) ==
            IF i > 0
            THEN Ok(cs3 \o <<CallKey("interactionWriter.createInteraction",
                                      compOut.list[i].companyId)>>,
                    WriterResult(writerOut))
            ELSE Ok(cs3, WriterResult(writerOut))
        Delete(r, t) ==
            LET cs1 == r.calls \o <<CallRow("opportunityWriter.deleteOpportunity",
                                            parseInt(rowIndex).n, "")>>
                cs2 == cs1 \o Invalidate(hasInvalidate, "opportunityReader.invalidateCache")
                cs3 == cs2 \o <<Call("companyReader.getCompanyList")>>
            IN  IF ~r.ok THEN r
                ELSE IF ~t.found THEN Throw(r.calls, "notFound")
                ELSE IF writerOut = "throw" THEN Throw(cs1, "writerError")
                ELSE IF writerOut = "ok" /\ t.row.customerCompany # <<>>
                     THEN Log(cs3, IF compOut.kind = "list"
                                   THEN CompanyOfOpportunity(compOut.list, t.row) ELSE 0)
                     ELSE Ok(cs2, WriterResult(writerOut))
    IN  Delete(_fetchOpportunities(TRUE, sqlOut, sheetOut),
               OpportunityTarget(rowIndex, sqlOut, sheetOut))


(***************************************************************************)
(* CompanyService: create, update and delete                               *)
(***************************************************************************)
\* the companyName arguments
CompanyNameInputs == { <<>>, NameAcme, NameTech, <<"Z">> }

_getCompanyByName_exactName(companyName, sqlOut, sheetOut) ==
    LET T(c) == c.companyName = companyName
        At(a, i) == IF i > 0 THEN Ok(a.calls, [found |-> TRUE, dto |-> a.val[i]])
                    ELSE Ok(a.calls, [found |-> FALSE, dto |-> <<>>])
        Find(a) == IF ~a.ok THEN a ELSE At(a, FindIndex(a.val, T))
    IN  IF companyName = <<>> THEN Ok(<<>>, [found |-> FALSE, dto |-> <<>>])
        ELSE Find(_getAllCompanies(sqlOut, sheetOut))

\* [found, dto] for the first company whose normalized name is the target's
_getCompanyByName(companyName, sqlOut, sheetOut) ==
    LET T(c) == _normalizeCompanyName(c.companyName)
                    = _normalizeCompanyName(companyName)
        At(a, i) == IF i > 0 THEN Ok(a.calls, [found |-> TRUE, dto |-> a.val[i]])
                    ELSE Ok(a.calls, [found |-> FALSE, dto |-> <<>>])
        Find(a) == IF ~a.ok THEN a ELSE At(a, FindIndex(a.val, T))
    IN  IF companyName = <<>> THEN Ok(<<>>, [found |-> FALSE, dto |-> <<>>])
        ELSE Find(_getAllCompanies(sqlOut, sheetOut))

\* the company exists and can be addressed
CompanyResolved(companyName, sqlOut, sheetOut) ==
    LET Found(g) == g.ok /\ g.val.found
    IN  Found(_getCompanyByName(companyName, sqlOut, sheetOut))

createCompany(companyName, sqlOut, sheetOut, writerInjected, writerOut, hasInvalidate) ==
    LET \* the id is generated from the clock and a random number
        Create(g, cs) ==
            IF ~g.ok THEN g
            ELSE IF g.val.found
                 THEN Ok(g.calls, [success |-> TRUE, id |-> g.val.dto.companyId,
                                   name |-> g.val.dto.companyName, existed |-> TRUE,
                                   data |-> g.val.dto])
            ELSE IF ~writerInjected THEN Throw(g.calls, "CompanySqlWriter not injected")
            ELSE IF writerOut = "throw" THEN Throw(g.calls \o cs, "writerError")
            ELSE Ok(g.calls \o cs \o Invalidate(hasInvalidate, "companyReader.invalidateCache"),
                    WriterResult(writerOut))
    IN  Create(_getCompanyByName(companyName, sqlOut, sheetOut),
               <<CallKey("companySqlWriter.createCompany", "COMP_<generated>")>>)

updateCompany(companyName, sqlOut, sheetOut, writerInjected, writerOut, logOut, hasInvalidate) ==
    LET Update(g) ==
            LET cs == g.calls \o <<CallKey("companySqlWriter.updateCompany",
                                           g.val.dto.companyId)>>
                logCalls == IF logOut = "absent" THEN <<>>
                            ELSE <<CallKey("interactionWriter.createInteraction",
                                           g.val.dto.companyId)>>
            IN  IF ~g.ok THEN g
                ELSE IF ~g.val.found THEN Throw(g.calls, "notFound")
                ELSE IF g.val.dto.companyId = "" THEN Throw(g.calls, "no companyId")
                ELSE IF ~writerInjected THEN Throw(g.calls, "TypeError")
                ELSE IF writerOut = "throw" THEN Throw(cs, "writerError")
                ELSE Ok(cs \o logCalls
                           \o Invalidate(hasInvalidate, "companyReader.invalidateCache"),
                        WriterResult(writerOut))
    IN  Update(_getCompanyByName(companyName, sqlOut, sheetOut))

\* the opportunities of the company, by normalized name
relatedOpps(opps, companyName) ==
    LET T(o) == _normalizeCompanyName(o.customerCompany)
                    = _normalizeCompanyName(companyName)
    IN  Filter(opps, T)

\* the error that refuses the deletion: its message carries the number of
\* related opportunities and the opportunityName of the first of them
RelatedOppsError(cs, related) ==
    [calls |-> cs, ok |-> FALSE, err |-> "has related opportunities",
     val |-> [count |-> Len(related), example |-> related[1].opportunityName]]

DeleteCompanyChecks_skipRelatedOpps(companyName, sqlOut, sheetOut, oppOut) ==
    LET Checks(g, cs) ==
            IF ~g.ok THEN g
            ELSE IF ~g.val.found THEN Throw(g.calls, "notFound")
            ELSE IF oppOut.kind # "list" THEN Throw(g.calls \o cs, "readError")
            ELSE Ok(g.calls \o cs, g.val.dto)
    IN  Checks(_getCompanyByName(companyName, sqlOut, sheetOut),
               <<Call("opportunityReader.getOpportunities")>>)

\* v7.8.0: the steps of deleteCompany before the SQL delete; [calls, ok, err]
DeleteCompanyChecks(companyName, sqlOut, sheetOut, oppOut) ==
    LET Checks(g, cs) ==
            IF ~g.ok THEN g
            ELSE IF ~g.val.found THEN Throw(g.calls, "notFound")
            ELSE IF oppOut.kind # "list" THEN Throw(g.calls \o cs, "readError")
            ELSE IF Len(relatedOpps(oppOut.list, companyName)) > 0
                 THEN RelatedOppsError(g.calls \o cs, relatedOpps(oppOut.list, companyName))
                 ELSE Ok(g.calls \o cs, g.val.dto)
    IN  Checks(_getCompanyByName(companyName, sqlOut, sheetOut),
               <<Call("opportunityReader.getOpportunities")>>)

deleteCompany_forbidden(companyName, sqlOut, sheetOut, oppOut, writerInjected, writerOut, hasInvalidate) ==
    LET Delete(c) ==
            LET cs == c.calls \o <<CallKey("companySqlWriter.deleteCompany",
                                           c.val.companyId)>>
            IN  IF ~c.ok THEN c
                ELSE IF ~Has(c.val, "rowIndex") THEN Throw(c.calls, "[Forbidden]")
                ELSE IF ~writerInjected THEN Throw(c.calls, "TypeError")
                ELSE IF writerOut = "throw" THEN Throw(cs, "writerError")
                ELSE Ok(cs \o Invalidate(hasInvalidate, "companyReader.invalidateCache"),
                        WriterResult(writerOut))
    IN  Delete(DeleteCompanyChecks(companyName, sqlOut, sheetOut, oppOut))

\* v7.8.0: delete through the SQL writer, addressed by companyId
deleteCompany(companyName, sqlOut, sheetOut, oppOut, writerInjected, writerOut, hasInvalidate) ==
    LET Delete(c) ==
            LET cs == c.calls \o <<CallKey("companySqlWriter.deleteCompany",
                                           c.val.companyId)>>
            IN  IF ~c.ok THEN c
                ELSE IF ~writerInjected THEN Throw(c.calls, "TypeError")
                ELSE IF writerOut = "throw" THEN Throw(cs, "writerError")
                ELSE Ok(cs \o Invalidate(hasInvalidate, "companyReader.invalidateCache"),
                        WriterResult(writerOut))
    IN  Delete(DeleteCompanyChecks(companyName, sqlOut, sheetOut, oppOut))

\* a sheet row that carries no rowIndex
RowlessCompany ==
    [companyId |-> "COMP_4", companyName |-> <<"Z">>, createdTime |-> ""]

\* v7.7.0: the row index of the company in a forced sheet read
_findCompanyRowIndex(companyName, sheetOut) ==
    LET cs == <<Call("companyReader.getCompanyList")>>
        T(c) == _normalizeCompanyName(c.companyName)
                    = _normalizeCompanyName(companyName)
        At(i) == IF i = 0 THEN Throw(cs, "notFound")
                 ELSE IF NoRowIndex(sheetOut.list[i]) THEN Throw(cs, "rowIndex missing")
                 ELSE Ok(cs, sheetOut.list[i].rowIndex)
    IN  IF sheetOut.kind # "list" THEN Throw(cs, "sheetError")
        ELSE At(FindIndex(sheetOut.list, T))

\* v7.7.0: the dependent-opportunity check comes first
NoRelatedOpps(companyName, oppOut) ==
    oppOut.kind = "list" /\ Len(relatedOpps(oppOut.list, companyName)) = 0

\* v7.7.0: delete through the sheet writer, addressed by rowIndex
deleteCompany_v770(companyName, oppOut, sheetOut, writerOut, hasInvalidate) ==
    LET cs0 == <<Call("opportunityReader.getOpportunities")>>
        Delete(f) ==
            LET cs1 == cs0 \o f.calls
                cs2 == cs1 \o <<CallRow("companyWriter.deleteCompany", f.val, "")>>
            IN  IF oppOut.kind # "list" THEN Throw(cs0, "readError")
                ELSE IF ~NoRelatedOpps(companyName, oppOut)
                     THEN RelatedOppsError(cs0, relatedOpps(oppOut.list, companyName))
                ELSE IF ~f.ok THEN Throw(cs1, f.err)
                ELSE IF writerOut = "throw" THEN Throw(cs2, "writerError")
                ELSE Ok(cs2 \o Invalidate(hasInvalidate, "companyReader.invalidateCache"),
                        WriterResult(writerOut))
    IN  Delete(_findCompanyRowIndex(companyName, sheetOut))


(***************************************************************************)
(* ContactService: writes                                                  *)
(***************************************************************************)
\* createContact: the SQL writer's result is returned
createContact(writerInjected, writerOut, hasInvalidate) ==
    LET cs == <<Call("contactSqlWriter.createContact")>>
    IN  IF ~writerInjected THEN Throw(<<>>, "ContactSqlWriter not configured")
        ELSE IF writerOut = "throw" THEN Throw(cs, "writerError")
        ELSE Ok(cs \o Invalidate(hasInvalidate, "contactCoreReader.invalidateCache"),
                WriterResult(writerOut))

ContactWrite_invalidateFirst(fn, contactId, writerInjected, writerOut, hasInvalidate) ==
    LET cs == Invalidate(hasInvalidate, "contactCoreReader.invalidateCache")
                  \o <<CallKey(fn, contactId)>>
    IN  IF ~writerInjected
        THEN Throw(Invalidate(hasInvalidate, "contactCoreReader.invalidateCache"),
                   "ContactSqlWriter not configured")
        ELSE IF writerOut = "throw" THEN Throw(cs, "writerError")
        ELSE Ok(cs, [success |-> TRUE])

\* updateContact and deleteContact: the writer's result is dropped
ContactWrite(fn, contactId, writerInjected, writerOut, hasInvalidate) ==
    LET cs == <<CallKey(fn, contactId)>>
    IN  IF ~writerInjected THEN Throw(<<>>, "ContactSqlWriter not configured")
        ELSE IF writerOut = "throw" THEN Throw(cs, "writerError")
        ELSE Ok(cs \o Invalidate(hasInvalidate, "contactCoreReader.invalidateCache"),
                [success |-> TRUE])

updateContact(contactId, writerInjected, writerOut, hasInvalidate) ==
    ContactWrite("contactSqlWriter.updateContact", contactId, writerInjected, writerOut,
                 hasInvalidate)

deleteContact(contactId, writerInjected, writerOut, hasInvalidate) ==
    ContactWrite("contactSqlWriter.deleteContact", contactId, writerInjected, writerOut,
                 hasInvalidate)

\* rows of the RAW (potential contact) sheet
RawContactRows ==
    { [rowIndex |-> 2, name |-> <<"K">>, notes |-> <<"o">>],
      [rowIndex |-> 3, name |-> <<"L">>, notes |-> <<>>] }

PotentialContactUpdates == { [name |-> <<"M">>], [notes |-> <<"n">>] }

\* { ...target, ...updateData } with the new note appended to the old ones
mergedData(target, updateData) ==
    LET merged == [x \in DOMAIN target \cup DOMAIN updateData |->
                       IF x \in DOMAIN updateData THEN updateData[x] ELSE target[x]]
        oldNotes == FirstText(target, <<"notes">>)
        \* `[${modifier} ${date}] ${notes}` for modifier 'a' on the date '1/2'
        newNoteEntry == <<"[", "a", " ", "1", "/", "2", "]", " ">> \o updateData.notes
    IN  IF Has(updateData, "notes") /\ updateData.notes # <<>>
        THEN SetField(merged, "notes",
                      IF oldNotes # <<>> THEN oldNotes \o <<"\n">> \o newNoteEntry
                      ELSE newNoteEntry)
        ELSE merged

\* the potential contact at the row: an index into the list, 0 if none
PotentialTarget(rowIndex, rawOut) ==
    LET T(c) == RowIs(c, rowIndex)
    IN  IF rawOut.kind = "list" THEN FindIndex(rawOut.list, T) ELSE 0

\* the writer is handed the rowIndex argument; the call records its number
updatePotentialContact(rowIndex, updateData, rawOut, writerOut, hasInvalidate) ==
    LET cs == <<Call("contactRawReader.getContacts")>>
        i == PotentialTarget(rowIndex, rawOut)
        cs1 == cs \o <<CallData("contactWriter.writePotentialContactRow",
                                parseInt(rowIndex).n,
                                mergedData(rawOut.list[i], updateData))>>
    IN  IF rawOut.kind = "absent" THEN Throw(<<>>, "contactRawReader not configured")
        ELSE IF rawOut.kind # "list" THEN Throw(cs, "sheetError")
        ELSE IF i = 0 THEN Throw(cs, "notFound")
        ELSE IF writerOut = "throw" THEN Throw(cs1, "writerError")
        ELSE Ok(cs1 \o Invalidate(hasInvalidate, "contactRawReader.invalidateCache"),
                [success |-> TRUE])

(***************************************************************************)
(* EventLogService: writes                                                 *)
(***************************************************************************)
\* what eventReader offers for invalidation: an invalidateCache function,
\* one that throws, only a cache property, or neither
EventHooks == {"invalidateCache", "throws", "cache", "none"}

\* errors of the hook are swallowed
_invalidateEventCacheSafe(hook) ==
    CASE hook \in {"invalidateCache", "throws"} -> <<Call("eventReader.invalidateCache")>>
      [] hook = "cache" -> <<Call("eventReader.cache = {}")>>
      [] hook = "none" -> <<>>

HasInvalidateCache(hook) == hook \in {"invalidateCache", "throws"}

EventData ==
    { [eventType |-> "Meeting", syncToCalendar |-> "true"],
      [eventType |-> "Call", syncToCalendar |-> "false"] }

createEvent(data, writerOut, hook, calOut) ==
    LET cs == <<CallRow("eventWriter.createEventLog", 0, data.eventType)>>
        cs1 == cs \o _invalidateEventCacheSafe(hook)
    IN  IF writerOut = "throw" THEN Throw(cs, "writerError")
        ELSE IF writerOut = "ok" /\ data.syncToCalendar = "true"
             THEN Ok(cs1 \o <<Call("calendarService.createEvent")>>, WriterResult(writerOut))
             ELSE Ok(cs1, WriterResult(writerOut))

updateEvent(rowIndex, data, writerOut, hook) ==
    LET cs == <<CallData("eventWriter.updateEventLog", rowIndex, data)>>
    IN  IF writerOut = "throw" THEN Throw(cs, "writerError")
        ELSE Ok(cs \o _invalidateEventCacheSafe(hook), WriterResult(writerOut))

deleteEvent(rowIndex, eventType, writerOut, hook) ==
    LET cs == <<CallRow("eventWriter.deleteEventLog", rowIndex, eventType)>>
    IN  IF writerOut = "throw" THEN Throw(cs, "writerError")
        ELSE Ok(cs \o _invalidateEventCacheSafe(hook), WriterResult(writerOut))

\* the sheet record of the event: an index into the list, 0 if none
EventTarget(eventId, sheetOut) ==
    LET T(l) == l.eventId = eventId
    IN  IF sheetOut.kind = "list" THEN FindIndex(sheetOut.list, T) ELSE 0

\* the event is resolved in the sheet, then deleted by row and type
deleteEventLog(eventId, sheetOut, writerOut, hook) ==
    LET cs == <<Call("eventReader.getEventLogs")>>
        i == EventTarget(eventId, sheetOut)
        d == deleteEvent(sheetOut.list[i].rowIndex, sheetOut.list[i].eventType,
                         writerOut, hook)
    IN  IF sheetOut.kind # "list" THEN Throw(cs, "sheetError")
        ELSE IF i = 0 THEN Throw(cs, "notFound")
        ELSE [d EXCEPT !.calls = cs \o d.calls]


\* Number(str) of a decimal string: white space is trimmed, the empty string
\* is 0, an optional sign and digits with at most one point are read, and
\* anything else is NaN; int tells whether the number is an integer and n is
\* its integer part
Number(str) ==
    LET t == trim(str)
        signed == t # <<>> /\ t[1] \in {"-", "+"}
        s == IF signed THEN Tail(t) ELSE t
        dots == {i \in 1..Len(s) : s[i] = "."}
        dot == IF dots = {} THEN Len(s) + 1 ELSE CHOOSE i \in dots : TRUE
        whole == SubSeq(s, 1, dot - 1)
        frac == SubSeq(s, dot + 1, Len(s))
        digits(x) == \A i \in 1..Len(x) : DigitValue(x[i]) >= 0
    IN  IF t = <<>> THEN [nan |-> FALSE, int |-> TRUE, n |-> 0]
        ELSE IF /\ Cardinality(dots) <= 1
                /\ digits(whole) /\ digits(frac)
                /\ Len(whole) + Len(frac) > 0
             THEN [nan |-> FALSE,
                   int |-> \A i \in 1..Len(frac) : frac[i] = "0",
                   n |-> (IF signed /\ t[1] = "-" THEN -1 ELSE 1)
                             * parseDigits(whole, 1, 0)]
             ELSE [nan |-> TRUE, int |-> FALSE, n |-> 0]

\* the rows eventReader.getEventLogs() returns to updateEventLog
EventLogRows ==
    SheetEventRows
        \cup { [eventId |-> "E3", eventType |-> "", rowIndex |-> 6,
                createdTime |-> "2026-01-05", opportunityId |-> "", companyId |-> ""],
               [eventId |-> "E4", eventType |-> "Call", rowIndex |-> 6,
                createdTime |-> "", opportunityId |-> "", companyId |-> ""] }

\* the idOrRowIndex arguments of updateEventLog: row indices, event ids, a
\* number that is no integer, and the empty string
EventKeyInputs ==
    { <<"5">>, <<"6">>, <<"7">>, <<"E", "1">>, <<"E", "3">>, <<"E", "9">>,
      <<"5", ".", "5">>, <<>> }

\* the update data of updateEventLog
EventUpdates ==
    { [eventName |-> "n"],
      [eventType |-> "Call"],
      [eventType |-> "Meeting", createdTime |-> "2026-02-02"],
      [eventId |-> "E1", eventType |-> "Call"],
      [eventId |-> "E2", eventType |-> "Call"],
      [id |-> "E2", eventType |-> "Meeting", eventId |-> ""],
      [eventId |-> "E3", id |-> "E1", eventType |-> "Call"],
      [eventId |-> "E9", eventType |-> ""] }

\* steps 1 and 2 of updateEventLog: the original event as an index into
\* logs, 0 if none; the id in the data is tried first, then the row index
OriginalEvent(idOrRowIndex, data, logs) ==
    LET Find(inputEventId, candidateRow) ==
            LET ById(l) == l.eventId = inputEventId
                ByRow(l) == Has(l, "rowIndex") /\ l.rowIndex = candidateRow.n
                Guess(byId) == IF byId > 0 THEN byId
                               ELSE IF candidateRow.int THEN FindIndex(logs, ByRow)
                               ELSE 0
            IN  Guess(IF inputEventId # "" THEN FindIndex(logs, ById) ELSE 0)
    IN  Find(FirstAtom(data, <<"eventId", "id">>), Number(idOrRowIndex))

\* step 3 of updateEventLog: the row index the update is addressed to; an
\* argument that is no number is looked up as an event id
ResolvedRowIndex(idOrRowIndex, logs) ==
    LET ByKey(l) == AsText(l.eventId) = idOrRowIndex
        Resolve(key, target) ==
            IF key.nan
            THEN IF target = 0 \/ ~Has(logs[target], "rowIndex") \/ logs[target].rowIndex = 0
                 THEN [ok |-> FALSE, err |-> "notFound", n |-> 0]
                 ELSE [ok |-> TRUE, err |-> "", n |-> logs[target].rowIndex]
            ELSE IF ~key.int
                 THEN [ok |-> FALSE, err |-> "Invalid resolved rowIndex", n |-> 0]
                 ELSE [ok |-> TRUE, err |-> "", n |-> key.n]
    IN  Resolve(Number(idOrRowIndex), FindIndex(logs, ByKey))

\* step 4 of updateEventLog: the event type changes
IsMove(original, data, logs) ==
    /\ original > 0
    /\ FirstAtom(data, <<"eventType">>) # ""
    /\ logs[original].eventType # ""
    /\ data.eventType # logs[original].eventType

MovePayload_keepDataId(original, data) ==
    LET eventId == IF FirstAtom(data, <<"eventId", "id">>) # ""
                   THEN FirstAtom(data, <<"eventId", "id">>)
                   ELSE original.eventId
        p == SetField(SetField(data, "eventId", eventId), "id", eventId)
    IN  IF FirstAtom(p, <<"createdTime">>) = "" /\ original.createdTime # ""
        THEN SetField(p, "createdTime", original.createdTime)
        ELSE p

\* the record the move creates: the data with the original's eventId, and
\* with the original's createdTime when the data has none
MovePayload(original, data) ==
    LET p == SetField(SetField(data, "eventId", original.eventId),
                      "id", original.eventId)
    IN  IF FirstAtom(p, <<"createdTime">>) = "" /\ original.createdTime # ""
        THEN SetField(p, "createdTime", original.createdTime)
        ELSE p

(***************************************************************************)
(* The event-log sheet: one partition per eventType, rows addressed by     *)
(* (eventType, rowIndex)                                                   *)
(***************************************************************************)
\* the sheet holds the rows of a read: no eventId twice, no row of a
\* partition twice
SheetOf(logs) == {logs[i] : i \in 1..Len(logs)}

SheetIsConsistent(logs) ==
    \A i, j \in 1..Len(logs) :
        i # j => /\ logs[i].eventId # logs[j].eventId
                 /\ <<logs[i].eventType, logs[i].rowIndex>>
                        # <<logs[j].eventType, logs[j].rowIndex>>

\* eventWriter.deleteEventLog(rowIndex, eventType) succeeded
SheetDelete(sheet, rowIndex, eventType) ==
    {r \in sheet : ~(r.eventType = eventType /\ r.rowIndex = rowIndex)}

\* eventWriter.createEventLog(payload) succeeded: the record gets a fresh
\* row index in the partition of its eventType
SheetCreate(sheet, payload) ==
    LET used == {r.rowIndex : r \in {x \in sheet : x.eventType = payload.eventType}}
        fresh == CHOOSE n \in 1..(Cardinality(used) + 1) : n \notin used
    IN  sheet \cup {SetField(payload, "rowIndex", fresh)}

MoveEvent_deleteNewType(original, data, deleteOut, createOut, hook) ==
    LET del == <<CallRow("eventWriter.deleteEventLog", original.rowIndex,
                         data.eventType)>>
        cre == <<CallData("eventWriter.createEventLog", 0,
                          MovePayload(original, data))>>
    IN  IF deleteOut = "throw" THEN Throw(del, "writerError")
        ELSE IF createOut = "throw" THEN Throw(del \o cre, "writerError")
        ELSE Ok(del \o cre \o _invalidateEventCacheSafe(hook),
                [success |-> createOut \in {"ok", "null"}, moved |-> TRUE])

MoveEvent_swallowCreateError(original, data, deleteOut, createOut, hook) ==
    LET del == <<CallRow("eventWriter.deleteEventLog", original.rowIndex,
                         original.eventType)>>
        cre == <<CallData("eventWriter.createEventLog", 0,
                          MovePayload(original, data))>>
    IN  IF deleteOut = "throw" THEN Throw(del, "writerError")
        ELSE IF createOut = "throw"
             THEN Ok(del \o cre, [success |-> FALSE, moved |-> FALSE])
        ELSE Ok(del \o cre \o _invalidateEventCacheSafe(hook),
                [success |-> createOut \in {"ok", "null"}, moved |-> TRUE])

\* step 4 of updateEventLog: delete the original, then create the record;
\* createEventLog produces a result, a thrown error, or null
MoveEvent(original, data, deleteOut, createOut, hook) ==
    LET del == <<CallRow("eventWriter.deleteEventLog", original.rowIndex,
                         original.eventType)>>
        cre == <<CallData("eventWriter.createEventLog", 0,
                          MovePayload(original, data))>>
    IN  IF deleteOut = "throw" THEN Throw(del, "writerError")
        ELSE IF createOut = "throw" THEN Throw(del \o cre, "writerError")
        ELSE Ok(del \o cre \o _invalidateEventCacheSafe(hook),
                [success |-> createOut \in {"ok", "null"}, moved |-> TRUE])

updateEventLog(idOrRowIndex, data, sheetOut, deleteOut, createOut, writerOut, hook) ==
    LET cs == <<Call("eventReader.getEventLogs")>>
        logs == sheetOut.list
        After1(r) == [r EXCEPT !.calls = cs \o r.calls]
        Update(original, rowIndex) ==
            IF ~rowIndex.ok THEN Throw(cs, rowIndex.err)
            ELSE IF IsMove(original, data, logs)
                 THEN After1(MoveEvent(logs[original], data, deleteOut, createOut, hook))
                 ELSE After1(updateEvent(rowIndex.n, data, writerOut, hook))
    IN  IF sheetOut.kind # "list" THEN Throw(cs, "sheetError")
        ELSE Update(OriginalEvent(idOrRowIndex, data, logs),
                    ResolvedRowIndex(idOrRowIndex, logs))

(***************************************************************************)
(* CompanyService.getCompanyDetails                                        *)
(***************************************************************************)
getCompanyDetails_notFoundThrows(companyName, sqlOut, sheetOut, contactsOut, oppOut, interOut, evOut, potOut) ==
    LET normalizedTarget == _normalizeCompanyName(companyName)
        IsTarget(c) == _normalizeCompanyName(c.companyName) = normalizedTarget
        \* new Date(time || 0).getTime()
        Ts(time) == IF time = "" THEN 0 ELSE getTime(time)
        InteractionCmp(x, y) == Ts(y.interactionTime) - Ts(x.interactionTime)
        EventCmp(x, y) == Ts(y.createdTime) - Ts(x.createdTime)
        Joined(companyInfo, opportunities) ==
            LET relatedOppIds == {opportunities[i].opportunityId : i \in 1..Len(opportunities)}
                OfCompany(x) == \/ x.companyId = companyInfo.companyId
                                \/ (x.opportunityId # "" /\ x.opportunityId \in relatedOppIds)
                IsContact(c) == c.companyId = companyInfo.companyId
                IsPotential(pc) == _normalizeCompanyName(pc.company) = normalizedTarget
            IN  [companyInfo |-> companyInfo,
                 contacts |-> Filter(contactsOut.list, IsContact),
                 opportunities |-> opportunities,
                 potentialContacts |-> Filter(potOut.list, IsPotential),
                 interactions |-> StableSort(Filter(interOut.list, OfCompany), InteractionCmp),
                 eventLogs |-> StableSort(Filter(evOut.list, OfCompany), EventCmp)]
        Found(list, i) ==
            IF i = 0
            THEN [companyInfo |-> Null, contacts |-> <<>>, opportunities |-> <<>>,
                  potentialContacts |-> <<>>, interactions |-> <<>>, eventLogs |-> <<>>]
            ELSE Joined(list[i], relatedOpps(oppOut.list, companyName))
        Details(a, sqlCalls) ==
            LET cs == sqlCalls
                        \o <<Call("contactReader.getContactList"),
                             Call("opportunityReader.getOpportunities"),
                             Call("interactionReader.getInteractions"),
                             Call("eventLogReader.getEventLogs"),
                             Call("contactReader.getContacts")>>
                        \o SubSeq(a.calls, Len(sqlCalls) + 1, Len(a.calls))
            IN  IF ~a.ok THEN Throw(cs, a.err)
                ELSE IF \E r \in {contactsOut, oppOut, interOut, evOut, potOut} :
                            r.kind # "list"
                     THEN Throw(cs, "readError")
                ELSE IF FindIndex(a.val, IsTarget) = 0 THEN Throw(cs, "notFound")
                ELSE Ok(cs, Found(a.val, FindIndex(a.val, IsTarget)))
    IN  Details(_getAllCompanies(sqlOut, sheetOut),
                IF sqlOut.kind = "absent" THEN <<>>
                ELSE <<Call("companySqlReader.getCompanies")>>)

\* the six reads of Promise.all are started together: the SQL company read,
\* the five list reads, and then the sheet fallback of _getAllCompanies;
\* any failed read fails the operation
getCompanyDetails(companyName, sqlOut, sheetOut, contactsOut, oppOut, interOut, evOut, potOut) ==
    LET normalizedTarget == _normalizeCompanyName(companyName)
        IsTarget(c) == _normalizeCompanyName(c.companyName) = normalizedTarget
        \* new Date(time || 0).getTime()
        Ts(time) == IF time = "" THEN 0 ELSE getTime(time)
        InteractionCmp(x, y) == Ts(y.interactionTime) - Ts(x.interactionTime)
        EventCmp(x, y) == Ts(y.createdTime) - Ts(x.createdTime)
        Joined(companyInfo, opportunities) ==
            LET relatedOppIds == {opportunities[i].opportunityId : i \in 1..Len(opportunities)}
                OfCompany(x) == \/ x.companyId = companyInfo.companyId
                                \/ (x.opportunityId # "" /\ x.opportunityId \in relatedOppIds)
                IsContact(c) == c.companyId = companyInfo.companyId
                IsPotential(pc) == _normalizeCompanyName(pc.company) = normalizedTarget
            IN  [companyInfo |-> companyInfo,
                 contacts |-> Filter(contactsOut.list, IsContact),
                 opportunities |-> opportunities,
                 potentialContacts |-> Filter(potOut.list, IsPotential),
                 interactions |-> StableSort(Filter(interOut.list, OfCompany), InteractionCmp),
                 eventLogs |-> StableSort(Filter(evOut.list, OfCompany), EventCmp)]
        Found(list, i) ==
            IF i = 0
            THEN [companyInfo |-> Null, contacts |-> <<>>, opportunities |-> <<>>,
                  potentialContacts |-> <<>>, interactions |-> <<>>, eventLogs |-> <<>>]
            ELSE Joined(list[i], relatedOpps(oppOut.list, companyName))
        Details(a, sqlCalls) ==
            LET cs == sqlCalls
                        \o <<Call("contactReader.getContactList"),
                             Call("opportunityReader.getOpportunities"),
                             Call("interactionReader.getInteractions"),
                             Call("eventLogReader.getEventLogs"),
                             Call("contactReader.getContacts")>>
                        \o SubSeq(a.calls, Len(sqlCalls) + 1, Len(a.calls))
            IN  IF ~a.ok THEN Throw(cs, a.err)
                ELSE IF \E r \in {contactsOut, oppOut, interOut, evOut, potOut} :
                            r.kind # "list"
                     THEN Throw(cs, "readError")
                ELSE Ok(cs, Found(a.val, FindIndex(a.val, IsTarget)))
    IN  Details(_getAllCompanies(sqlOut, sheetOut),
                IF sqlOut.kind = "absent" THEN <<>>
                ELSE <<Call("companySqlReader.getCompanies")>>)

(***************************************************************************)
(* OpportunityService.getOpportunityDetails, ContactService.getLinkedContacts *)
(***************************************************************************)
\* the six reads of Promise.all are started together: the SQL opportunity
\* read, the five list reads, and then the sheet fallback of
\* _fetchOpportunities; allLinks and allOfficialContacts may be null
\* (|| []), any other failed read fails the operation.  Identifiers are
\* atoms without surrounding spaces; the link status is text
getOpportunityDetails(opportunityId, sqlOut, sheetOut, interOut, evOut, linksOut, contactsOut, potOut) ==
    LET allLinks == IF linksOut.kind = "list" THEN linksOut.list ELSE <<>>
        allOfficialContacts == IF contactsOut.kind = "list" THEN contactsOut.list ELSE <<>>
        IsTarget(o) == o.opportunityId = opportunityId
        IsActive(link) ==
            LET statusVal == toLowerCase(trim(FirstText(link, <<"status", "linkStatus", "state">>)))
            IN  statusVal = <<>> \/ statusVal = <<"a", "c", "t", "i", "v", "e">>
        IsLinkOf(link) ==
            LET linkOppId == FirstAtom(link, <<"opportunityId", "oppId", "opportunity_id">>)
            IN  linkOppId # "" /\ linkOppId = opportunityId /\ IsActive(link)
        ContactIdx(link) ==
            LET linkContactId == FirstAtom(link, <<"contactId", "id", "contact_id">>)
                T(c) == c.contactId = linkContactId
            IN  IF linkContactId = "" THEN 0 ELSE FindIndex(allOfficialContacts, T)
        HasContact(link) == ContactIdx(link) # 0
        LinkId(link) ==
            LET id == FirstAtom(link, <<"linkId", "id", "rowId", "rowIndex">>)
            IN  IF id = "" THEN Undefined ELSE id
        Linked(link) == SetField(allOfficialContacts[ContactIdx(link)], "linkId", LinkId(link))
        \* new Date(x.interactionTime || x.createdTime): NaN compares as 0
        InteractionCmp(x, y) ==
            LET tx == FirstAtom(x, <<"interactionTime", "createdTime">>)
                ty == FirstAtom(y, <<"interactionTime", "createdTime">>)
            IN  IF tx \in InvalidDates \/ ty \in InvalidDates THEN 0
                ELSE getTime(ty) - getTime(tx)
        Ts(time) == IF time = "" THEN 0 ELSE getTime(time)
        EventCmp(x, y) == Ts(y.createdTime) - Ts(x.createdTime)
        OfOpportunity(x) == x.opportunityId = opportunityId
        PositionOf(list, i) == IF i = 0 THEN <<>> ELSE FirstText(list[i], <<"position">>)
        JobTitle(targetName, normalizedOppCompany, linked, potentials) ==
            LET Named(c) == c.name = targetName
                Fallback(pc) == /\ pc.name = targetName
                                /\ _normalizeCompanyName(pc.company) = normalizedOppCompany
            IN  IF targetName = <<>> THEN <<>>
                ELSE IF PositionOf(linked, FindIndex(linked, Named)) # <<>>
                     THEN PositionOf(linked, FindIndex(linked, Named))
                ELSE IF PositionOf(potentials, FindIndex(potentials, Named)) # <<>>
                     THEN PositionOf(potentials, FindIndex(potentials, Named))
                ELSE PositionOf(potOut.list, FindIndex(potOut.list, Fallback))
        Parent(all, info) ==
            LET id == FirstAtom(info, <<"parentOpportunityId">>)
                T(o) == o.opportunityId = id
            IN  IF id = "" \/ FindIndex(all, T) = 0 THEN Null ELSE all[FindIndex(all, T)]
        Joined(all, info, normalizedOppCompany, linked) ==
            LET SameCompany(pc) ==
                    /\ _normalizeCompanyName(pc.company) # <<>>
                    /\ normalizedOppCompany # <<>>
                    /\ _normalizeCompanyName(pc.company) = normalizedOppCompany
                IsChild(o) == FirstAtom(o, <<"parentOpportunityId">>) = opportunityId
                View(potentials) ==
                    [opportunityInfo |->
                         SetField(info, "mainContactJobTitle",
                                  JobTitle(trim(FirstText(info, <<"mainContact">>)),
                                           normalizedOppCompany, linked, potentials)),
                     interactions |-> StableSort(Filter(interOut.list, OfOpportunity), InteractionCmp),
                     eventLogs |-> StableSort(Filter(evOut.list, OfOpportunity), EventCmp),
                     linkedContacts |-> linked,
                     potentialContacts |-> potentials,
                     parentOpportunity |-> Parent(all, info),
                     childOpportunities |-> Filter(all, IsChild)]
            IN  View(Filter(potOut.list, SameCompany))
        \* opportunityInfo.mainContactJobTitle = ... is an assignment to the
        \* element of the array _fetchOpportunities returned
        served == IF sqlOut.kind = "list" /\ Len(sqlOut.list) > 0 THEN "sql" ELSE "sheet"
        Assigned(all, i, cs, view) ==
            Ok(cs, view) @@ [written |-> (served :> [all EXCEPT ![i] = view.opportunityInfo])]
        Found(all, i, cs) ==
            IF i = 0 THEN Throw(cs, "notFound")
            ELSE Assigned(all, i, cs,
                          Joined(all, all[i], _normalizeCompanyName(all[i].customerCompany),
                                 Map(Linked, Filter(Filter(allLinks, IsLinkOf), HasContact))))
        Details(a, sqlCalls) ==
            LET cs == sqlCalls
                        \o <<Call("interactionReader.getInteractions"),
                             Call("eventLogReader.getEventLogs"),
                             Call("contactReader.getAllOppContactLinks"),
                             Call("contactReader.getContactList"),
                             Call("contactReader.getContacts")>>
                        \o SubSeq(a.calls, Len(sqlCalls) + 1, Len(a.calls))
            IN  IF ~a.ok THEN Throw(cs, a.err)
                ELSE IF \/ \E r \in {interOut, evOut, potOut} : r.kind # "list"
                        \/ \E r \in {linksOut, contactsOut} : r.kind \notin {"list", "null"}
                     THEN Throw(cs, "readError")
                ELSE Found(a.val, FindIndex(a.val, IsTarget), cs)
    IN  Details(_fetchOpportunities(FALSE, sqlOut, sheetOut),
                IF sqlOut.kind = "absent" THEN <<>>
                ELSE <<Call("opportunitySqlReader.getOpportunities")>>)

\* the official contacts whose contactId is in a link of the opportunity
\* with status === 'active', each with the card link of the potential
\* contact of the same name and company; any error is answered with []
getLinkedContacts(opportunityId, linksOut, sqlOut, coreOut, compOut, rawOut) ==
    LET _normalizeKey(str) == trim(toLowerCase(str))
        IsLinkOf(link) ==
            /\ Has(link, "opportunityId") /\ link.opportunityId = opportunityId
            /\ Has(link, "status") /\ link.status = <<"a", "c", "t", "i", "v", "e">>
        linkedContactIds(links) ==
            {links[i].contactId : i \in {j \in 1..Len(links) : IsLinkOf(links[j])}}
        KeyOf(name, company) == <<_normalizeKey(name), _normalizeKey(company)>>
        HasCard(pc) == /\ pc.name # <<>> /\ pc.company # <<>> /\ pc.driveLink # ""
        DriveLink(name, companyName) ==
            LET T(pc) == HasCard(pc) /\ KeyOf(pc.name, pc.company) = KeyOf(name, companyName)
                Card(i) == IF i = 0 THEN "" ELSE rawOut.list[i].driveLink
            IN  IF name = <<>> \/ companyName = <<>> THEN ""
                ELSE Card(FindIndex(rawOut.list, T))
        View(contact) ==
            [contactId |-> contact.contactId, name |-> contact.name,
             companyId |-> contact.companyId, position |-> contact.position,
             companyName |-> contact.companyName,
             driveLink |-> DriveLink(contact.name, contact.companyName)]
        Join(f, ids, cs) ==
            LET IsLinked(contact) == contact.contactId \in ids
            IN  IF ids = {} THEN Ok(cs, <<>>) ELSE Ok(cs, Map(View, Filter(f.val, IsLinked)))
        Links(f, sqlCalls) ==
            LET cs == <<Call("contactCoreReader.getAllOppContactLinks")>> \o sqlCalls
                        \o <<Call("contactRawReader.getContacts")>>
                        \o SubSeq(f.calls, Len(sqlCalls) + 1, Len(f.calls))
            IN  IF ~f.ok \/ linksOut.kind # "list" \/ rawOut.kind # "list"
                THEN Ok(cs, <<>>)
                ELSE Join(f, linkedContactIds(linksOut.list), cs)
    IN  IF coreOut.kind = "absent" \/ rawOut.kind = "absent" THEN Ok(<<>>, <<>>)
        ELSE Links(_fetchOfficialContactsWithCompanies(FALSE, sqlOut, coreOut, compOut),
                   IF sqlOut.kind = "absent" THEN <<>>
                   ELSE <<Call("contactSqlReader.getContacts")>>)

(***************************************************************************)
(* OpportunityService.searchOpportunities                                  *)
(***************************************************************************)
\* filters is a record; '' and FALSE stand for a missing field, and missing
\* filters are the record of missing fields.  The page argument is not
\* used.  Each filter that runs makes a new array; items.sort() sorts the
\* array it is called on, which is the one _fetchOpportunities returned
\* when no filter ran
searchOpportunities(query, filters, sqlOut, sheetOut) ==
    LET q == trim(toLowerCase(query))
        Wanted(value, wanted) == wanted = "" \/ wanted = "all" \/ value = wanted
        NameHas(o, k) == FirstText(o, <<k>>) # <<>> /\ includes(toLowerCase(FirstText(o, <<k>>)), q)
        Probable(o) ==
            LET wanted == Number(filters.minProb)
                has == Number(FirstText(o, <<"probability">>))
            IN  ~wanted.nan /\ ~has.nan /\ has.n >= wanted.n
        Keep(o) ==
            /\ filters.includeArchived \/ FirstAtom(o, <<"currentStatus">>) # "archived"
            /\ query # <<>> => (NameHas(o, "opportunityName") \/ NameHas(o, "customerCompany"))
            /\ Wanted(FirstAtom(o, <<"currentStage">>), filters.stage)
            /\ Wanted(FirstAtom(o, <<"assignee">>), filters.assignee)
            /\ Wanted(FirstAtom(o, <<"currentStatus">>), filters.status)
            /\ filters.minProb # <<>> => Probable(o)
        noFilterRan ==
            /\ filters.includeArchived /\ query = <<>> /\ filters.minProb = <<>>
            /\ \A k \in {"stage", "assignee", "status"} : filters[k] \in {"", "all"}
        Ts(o) == IF FirstAtom(o, <<"lastUpdateTime">>) = "" THEN 0
                 ELSE getTime(o.lastUpdateTime)
        Cmp(x, y) == Ts(y) - Ts(x)
        served == IF sqlOut.kind = "list" /\ Len(sqlOut.list) > 0 THEN "sql" ELSE "sheet"
        Sorted(a, items) ==
            IF noFilterRan THEN Ok(a.calls, items) @@ [written |-> (served :> items)]
            ELSE Ok(a.calls, items)
        Search(a) == IF ~a.ok THEN a ELSE Sorted(a, StableSort(Filter(a.val, Keep), Cmp))
    IN  Search(_fetchOpportunities(FALSE, sqlOut, sheetOut))

(***************************************************************************)
(* EventLogService.getEventById                                            *)
(***************************************************************************)
\* a by-id read returns one record, held as a list of one, or null.  The
\* SQL record is used when it is truthy; a failed join read is caught and
\* the clone is returned without the names; any other error gives null
getEventById(eventId, sqlOut, sheetOut, oppOut, compOut) ==
    LET sqlCalls == IF sqlOut.kind = "absent" THEN <<>>
                    ELSE <<CallKey("eventLogSqlReader.getEventLogById", eventId)>>
        sqlServes == sqlOut.kind = "list" /\ Len(sqlOut.list) > 0
        readCalls == IF sqlServes THEN sqlCalls
                     ELSE sqlCalls \o <<CallKey("eventReader.getEventLogById", eventId)>>
        Clone(raw) == IF (~Has(raw, "id") \/ raw.id = "") /\ raw.eventId # ""
                      THEN SetField(raw, "id", raw.eventId) ELSE raw
        Joined(raw) ==
            LET cs == readCalls \o <<Call("oppReader.getOpportunities"),
                                     Call("companyReader.getCompanyList")>>
            IN  IF oppOut.kind # "list" \/ compOut.kind # "list"
                THEN Ok(cs, Clone(raw))
                ELSE Ok(cs, JoinEvent(raw, oppOut.list, compOut.list))
    IN  IF sqlServes THEN Joined(sqlOut.list[1])
        ELSE IF sheetOut.kind = "list" /\ Len(sheetOut.list) > 0 THEN Joined(sheetOut.list[1])
        ELSE Ok(readCalls, Null)

(***************************************************************************)
(* OpportunityService.getOpportunitiesByCounty                             *)
(***************************************************************************)
\* the county of an opportunity is that of the last company whose name,
\* lower-cased and trimmed, is the opportunity's customerCompany treated
\* alike; the counties come in the order of their first opportunity; any
\* error is answered with []
getOpportunitiesByCounty(opportunityType, sqlOut, sheetOut, compOut) ==
    LET companies == IF compOut.kind = "list" THEN compOut.list ELSE <<>>
        normalize(name) == trim(toLowerCase(name))
        Active(o) == /\ FirstAtom(o, <<"currentStatus">>) # "archived"
                     /\ opportunityType # "" => FirstAtom(o, <<"opportunityType">>) = opportunityType
        Named(o) == {i \in 1..Len(companies) :
                        /\ companies[i].companyName # <<>>
                        /\ normalize(companies[i].companyName) = normalize(o.customerCompany)}
        County(o) == IF Named(o) = {} THEN <<>>
                     ELSE companies[CHOOSE i \in Named(o) : \A j \in Named(o) : j <= i].county
        Counts(opps) ==
            LET firsts == {i \in 1..Len(opps) :
                              /\ County(opps[i]) # <<>>
                              /\ \A j \in 1..(i - 1) : County(opps[j]) # County(opps[i])}
                nth(k) == CHOOSE i \in firsts : Cardinality({j \in firsts : j < i}) = k - 1
            IN  [k \in 1..Cardinality(firsts) |->
                    [county |-> County(opps[nth(k)]),
                     count |-> Cardinality({j \in 1..Len(opps) :
                                               County(opps[j]) = County(opps[nth(k)])})]]
        Aggregate(a, sqlCalls) ==
            LET cs == sqlCalls \o <<Call("companyReader.getCompanyList")>>
                        \o SubSeq(a.calls, Len(sqlCalls) + 1, Len(a.calls))
            IN  IF ~a.ok \/ compOut.kind \notin {"list", "null"} THEN Ok(cs, <<>>)
                ELSE Ok(cs, Counts(Filter(a.val, Active)))
    IN  Aggregate(_fetchOpportunities(FALSE, sqlOut, sheetOut),
                  IF sqlOut.kind = "absent" THEN <<>>
                  ELSE <<Call("opportunitySqlReader.getOpportunities")>>)

(***************************************************************************)
(* ContactService.getContactById                                           *)
(***************************************************************************)
\* the contact of the CORE sheet list with the id, or null
SheetContactById(contactId, r) ==
    LET T(c) == c.contactId = contactId
    IN  IF ~r.ok THEN r
        ELSE Ok(r.calls, IF FindIndex(r.val, T) = 0 THEN Null ELSE r.val[FindIndex(r.val, T)])

getContactById_sheetOnly(contactId, byIdOut, compOut, coreOut, compOut2) ==
    SheetContactById(contactId,
                     _fetchOfficialContactsWithCompanies(TRUE, Unused, coreOut, compOut2))

\* the by-id read answers with one contact (a list of one) or with null; a
\* company read that fails inside the try is caught like a failed SQL read
getContactById(contactId, byIdOut, compOut, coreOut, compOut2) ==
    LET sqlCalls == IF byIdOut.kind = "absent" THEN <<>>
                    ELSE <<CallKey("contactSqlReader.getContactById", contactId)>>
        joinCalls == IF byIdOut.kind = "list"
                     THEN sqlCalls \o <<Call("companyReader.getCompanyList")>>
                     ELSE sqlCalls
        Mapped(contact) ==
            SetField(contact, "companyName",
                     NameOrId(compOut.list, "companyId", "companyName", contact.companyId))
        Fallback(r) ==
            [SheetContactById(contactId, r) EXCEPT !.calls = joinCalls \o r.calls]
    IN  IF byIdOut.kind = "list" /\ compOut.kind = "list"
        THEN Ok(joinCalls, Mapped(_mapSqlContact(byIdOut.list[1])))
        ELSE Fallback(_fetchOfficialContactsWithCompanies(TRUE, Unused, coreOut, compOut2))

(***************************************************************************)
(* The state machine                                                       *)
(***************************************************************************)
\* the services are constructed and no request has been served
Init ==
    /\ opName = "none"
    /\ opInput = <<>>
    /\ calls = <<>>
    /\ outcome = "none"
    /\ result = <<>>
    /\ error = ""
    /\ written = <<>>
    /\ storeRows = <<>>
    /\ pending = <<>>

\* no request is being served
Idle == opName = "none"

\* an operation ran to its end with result r
Finish(name, input, r) ==
    /\ opName' = name
    /\ opInput' = input
    /\ calls' = r.calls
    /\ outcome' = IF r.ok THEN "return" ELSE "throw"
    /\ result' = r.val
    /\ error' = r.err
    /\ written' = IF Has(r, "written") THEN r.written ELSE <<>>
    /\ UNCHANGED <<storeRows, pending>>

\* the reader's invalidateCache hook throws: the operation ends at that call
\* and the error reaches the caller (catch (error) { throw error; })
invalidateCacheThrows(r, fn) ==
    LET at == {i \in 1..Len(r.calls) : r.calls[i].fn = fn}
    IN  IF at = {} THEN r
        ELSE Throw(SubSeq(r.calls, 1, CHOOSE i \in at : \A j \in at : i <= j),
                   "invalidateCache failed")

\* a mutation ends; when it reached the reader's invalidateCache hook, the
\* hook returned or threw
FinishMutation(name, input, fn, r) ==
    \E hookOut \in After(Called(r.calls, fn), {"ok", "throw"}, "unused") :
        Finish(name, [invalidate |-> hookOut] @@ input,
               IF hookOut = "throw" THEN invalidateCacheThrows(r, fn) ELSE r)

\* a record that carries canonical fields and their aliases at once
MixedCompanyRow ==
    [companyId |-> "COMP_1", company_id |-> "COMP_3",
     companyName |-> NameAcme, company_name |-> NameTech,
     county |-> <<"T", "p">>, city |-> <<"K">>,
     introduction |-> <<>>, description |-> <<"m", "e">>,
     engagementRating |-> "A", interactionRating |-> "B",
     lastUpdateTime |-> "", updatedTime |-> "2026-01-03", updated_time |-> "2026-01-04",
     creator |-> "amy", createdBy |-> "bob", rowIndex |-> 0]

GetAllCompanies ==
    /\ Idle
    /\ \E sqlOut \in SqlOutcomes(SqlCompanyRows \cup {MixedCompanyRow}, MaxCompanies) :
         \E sheetOut \in After(~SqlServes(sqlOut),
                               SheetOutcomes(SheetCompanyRows, MaxCompanies), Unused) :
           Finish("_getAllCompanies", [sql |-> sqlOut, sheet |-> sheetOut],
                  _getAllCompanies(sqlOut, sheetOut))

FetchInternal ==
    /\ Idle
    /\ \E sqlOut \in SqlOutcomes(SqlAnnouncementRows, MaxAnnouncements) :
         \E sheetOut \in SheetOutcomes(SheetAnnouncementRows, MaxAnnouncements) :
           Finish("_fetchInternal", [sql |-> sqlOut, sheet |-> sheetOut],
                  _fetchInternal(sqlOut, sheetOut))

GetAnnouncements ==
    /\ Idle
    /\ \E sqlOut \in SqlOutcomes(SqlAnnouncementRows, MaxAnnouncements) :
         \E sheetOut \in SheetOutcomes(SheetAnnouncementRows, MaxAnnouncements) :
           Finish("getAnnouncements", [sql |-> sqlOut, sheet |-> sheetOut],
                  getAnnouncements(sqlOut, sheetOut))

CreateAnnouncement ==
    /\ Idle
    /\ \E title \in {"", "t5"} :
         \E writerOut \in WriterOutcomes :
           Finish("createAnnouncement",
                  [data |-> [title |-> title], writer |-> writerOut],
                  createAnnouncement([title |-> title], writerOut))

UpdateAnnouncement ==
    /\ Idle
    /\ \E id \in {"A1", "A2", "A9"} :
         \E sqlOut \in SqlOutcomes(SqlAnnouncementRows, MaxAnnouncements) :
           \E sheetOut \in SheetOutcomes(SheetAnnouncementRows, MaxAnnouncements) :
             \E writerOut \in WriterOutcomes :
               Finish("updateAnnouncement",
                      [id |-> id, sql |-> sqlOut, sheet |-> sheetOut, writer |-> writerOut],
                      updateAnnouncement(id, sqlOut, sheetOut, writerOut))

DeleteAnnouncement ==
    /\ Idle
    /\ \E id \in {"A1", "A2", "A9"} :
         \E sqlOut \in SqlOutcomes(SqlAnnouncementRows, MaxAnnouncements) :
           \E sheetOut \in SheetOutcomes(SheetAnnouncementRows, MaxAnnouncements) :
             \E writerOut \in WriterOutcomes :
               Finish("deleteAnnouncement",
                      [id |-> id, sql |-> sqlOut, sheet |-> sheetOut, writer |-> writerOut],
                      deleteAnnouncement(id, sqlOut, sheetOut, writerOut))

GetAllEvents ==
    /\ Idle
    /\ \E sqlOut \in SqlOutcomes(SqlEventRows, MaxEvents) :
         \E sheetOut \in After(~SqlEventsServe(sqlOut),
                               SheetOutcomes(SheetEventRows, MaxEvents), Unused) :
           \E oppOut \in After(EventsRead(sqlOut, sheetOut).ok,
                               SheetOutcomes(SheetOpportunityRows, MaxJoinRows), Unused) :
             \E compOut \in After(EventsRead(sqlOut, sheetOut).ok,
                                  SheetOutcomes(SheetCompanyRows, MaxJoinRows), Unused) :
               Finish("getAllEvents",
                      [sql |-> sqlOut, sheet |-> sheetOut, opps |-> oppOut, comps |-> compOut],
                      getAllEvents(sqlOut, sheetOut, oppOut, compOut))

GetCompanyListWithActivity ==
    /\ Idle
    /\ \E filters \in CompanyFilters :
         \E sqlOut \in SqlOutcomes(SqlCompanyRows, MaxCompanies) :
           \E sheetOut \in After(~SqlServes(sqlOut),
                                 SheetOutcomes(SheetCompanyRows, MaxCompanies), Unused) :
             \E interOut \in After(_getAllCompanies(sqlOut, sheetOut).ok,
                                   SheetOutcomes(InteractionRows, MaxJoinRows), Unused) :
               \E evOut \in After(_getAllCompanies(sqlOut, sheetOut).ok,
                                  SheetOutcomes(SheetEventRows, MaxJoinRows), Unused) :
                 \E retryOut \in After(~CompanyListTry(filters, sqlOut, sheetOut,
                                                       interOut, evOut).ok,
                                       SheetOutcomes(SheetCompanyRows, MaxJoinRows), Unused) :
                   Finish("getCompanyListWithActivity",
                          [filters |-> filters, sql |-> sqlOut, sheet |-> sheetOut,
                           interactions |-> interOut, eventLogs |-> evOut, retry |-> retryOut],
                          getCompanyListWithActivity(filters, sqlOut, sheetOut,
                                                     interOut, evOut, retryOut))

GetAllOfficialContacts ==
    /\ Idle
    /\ \E sqlOut \in SqlOutcomes(SqlContactRows, MaxContacts) :
         \E coreOut \in After(~SqlContactsServe(FALSE, sqlOut),
                              {NotInjected}
                                \cup SheetOutcomes(SheetContactRows, MaxContacts),
                              Unused) :
           \E compOut \in After(OfficialContactsRead(FALSE, sqlOut, coreOut).ok,
                                SheetOutcomes(SheetCompanyRows, MaxJoinRows), Unused) :
             Finish("getAllOfficialContacts",
                    [sql |-> sqlOut, sheet |-> coreOut, comps |-> compOut],
                    getAllOfficialContacts(sqlOut, coreOut, compOut))

CreateOpportunity ==
    /\ Idle
    /\ \E writerOut \in WriterOutcomes, hasInvalidate \in BOOLEAN :
         FinishMutation("createOpportunity",
                        [writer |-> writerOut, hasInvalidate |-> hasInvalidate],
                        "opportunityReader.invalidateCache",
                        createOpportunity(writerOut, hasInvalidate))

UpdateOpportunity ==
    /\ Idle
    /\ \E rowIndex \in RowIndexInputs, updateData \in OpportunityUpdates,
          sqlOut \in SqlOutcomes(SqlOpportunityRows, MaxJoinRows),
          sheetOut \in SheetOutcomes(SheetOpportunityRows, MaxOpportunities) :
         \E configOut \in After(OpportunityTarget(rowIndex, sqlOut, sheetOut).found,
                                {Threw, ReturnedNull, ReturnedObject}, Unused) :
           \E writerOut \in After(configOut.kind = "object", WriterOutcomes, "unused"),
              hasInvalidate \in BOOLEAN :
             \E logOut \in After(/\ writerOut \in {"ok", "fail"}
                                 /\ UpdateLogs(OpportunityTarget(rowIndex, sqlOut,
                                                                 sheetOut).row,
                                               updateData) # <<>>,
                                 {"ok", "throw"}, "unused") :
               FinishMutation("updateOpportunity",
                              [rowIndex |-> rowIndex, updateData |-> updateData, sql |-> sqlOut,
                               sheet |-> sheetOut, config |-> configOut, writer |-> writerOut,
                               hasInvalidate |-> hasInvalidate, log |-> logOut],
                              "opportunityReader.invalidateCache",
                              updateOpportunity(rowIndex, updateData, sqlOut, sheetOut, configOut,
                                                writerOut, hasInvalidate, logOut))

DeleteOpportunity ==
    /\ Idle
    /\ \E rowIndex \in RowIndexInputs,
          sqlOut \in SqlOutcomes(SqlOpportunityRows, MaxJoinRows),
          sheetOut \in SheetOutcomes(SheetOpportunityRows, MaxOpportunities) :
         \E writerOut \in After(OpportunityTarget(rowIndex, sqlOut, sheetOut).found,
                                WriterOutcomes, "unused"),
            hasInvalidate \in BOOLEAN :
           \E compOut \in After(/\ writerOut = "ok"
                                /\ OpportunityTarget(rowIndex, sqlOut,
                                                     sheetOut).row.customerCompany # <<>>,
                                SheetOutcomes(SheetCompanyRows, MaxJoinRows), Unused) :
             \E logOut \in After(/\ compOut.kind = "list"
                                 /\ CompanyOfOpportunity(
                                        compOut.list,
                                        OpportunityTarget(rowIndex, sqlOut,
                                                          sheetOut).row) > 0,
                                 {"ok", "throw"}, "unused") :
               FinishMutation("deleteOpportunity",
                              [rowIndex |-> rowIndex, sql |-> sqlOut, sheet |-> sheetOut,
                               writer |-> writerOut, hasInvalidate |-> hasInvalidate,
                               comps |-> compOut, log |-> logOut],
                              "opportunityReader.invalidateCache",
                              deleteOpportunity(rowIndex, sqlOut, sheetOut, writerOut,
                                                hasInvalidate, compOut, logOut))

CreateCompany ==
    /\ Idle
    /\ \E companyName \in CompanyNameInputs :
         \E sqlOut \in After(companyName # <<>>,
                             SqlOutcomes(SqlCompanyRows, MaxCompanies), Unused) :
           \E sheetOut \in After(companyName # <<>> /\ ~SqlServes(sqlOut),
                                 SheetOutcomes(SheetCompanyRows, MaxCompanies), Unused) :
             \E writerInjected \in BOOLEAN, hasInvalidate \in BOOLEAN :
               \E writerOut \in After(/\ writerInjected
                                      /\ _getCompanyByName(companyName, sqlOut, sheetOut).ok
                                      /\ ~CompanyResolved(companyName, sqlOut, sheetOut),
                                      WriterOutcomes, "unused") :
                 FinishMutation("createCompany",
                                [companyName |-> companyName, sql |-> sqlOut, sheet |-> sheetOut,
                                 writerInjected |-> writerInjected, writer |-> writerOut,
                                 hasInvalidate |-> hasInvalidate],
                                "companyReader.invalidateCache",
                                createCompany(companyName, sqlOut, sheetOut, writerInjected,
                                              writerOut, hasInvalidate))

UpdateCompany ==
    /\ Idle
    /\ \E companyName \in CompanyNameInputs :
         \E sqlOut \in After(companyName # <<>>,
                             SqlOutcomes(SqlCompanyRows, MaxCompanies), Unused) :
           \E sheetOut \in After(companyName # <<>> /\ ~SqlServes(sqlOut),
                                 SheetOutcomes(SheetCompanyRows, MaxCompanies), Unused) :
             \E writerInjected \in BOOLEAN, hasInvalidate \in BOOLEAN :
               \E writerOut \in After(/\ writerInjected
                                      /\ CompanyResolved(companyName, sqlOut, sheetOut),
                                      WriterOutcomes, "unused") :
                 \E logOut \in After(writerOut \in {"ok", "fail"},
                                     {"absent", "ok", "throw"}, "unused") :
                   FinishMutation("updateCompany",
                                  [companyName |-> companyName, sql |-> sqlOut, sheet |-> sheetOut,
                                   writerInjected |-> writerInjected, writer |-> writerOut,
                                   log |-> logOut, hasInvalidate |-> hasInvalidate],
                                  "companyReader.invalidateCache",
                                  updateCompany(companyName, sqlOut, sheetOut, writerInjected,
                                                writerOut, logOut, hasInvalidate))

DeleteCompany ==
    /\ Idle
    /\ \E companyName \in CompanyNameInputs :
         \E sqlOut \in After(companyName # <<>>,
                             SqlOutcomes(SqlCompanyRows, MaxCompanies), Unused) :
           \E sheetOut \in After(companyName # <<>> /\ ~SqlServes(sqlOut),
                                 SheetOutcomes(SheetCompanyRows, MaxCompanies), Unused) :
             \E oppOut \in After(CompanyResolved(companyName, sqlOut, sheetOut),
                                 SheetOutcomes(SheetOpportunityRows, MaxJoinRows), Unused) :
               \E writerInjected \in BOOLEAN, hasInvalidate \in BOOLEAN :
                 \E writerOut \in After(/\ writerInjected
                                        /\ DeleteCompanyChecks(companyName, sqlOut, sheetOut, oppOut).ok,
                                        WriterOutcomes, "unused") :
                   FinishMutation("deleteCompany",
                                  [companyName |-> companyName, sql |-> sqlOut, sheet |-> sheetOut,
                                   opps |-> oppOut, writerInjected |-> writerInjected,
                                   writer |-> writerOut, hasInvalidate |-> hasInvalidate],
                                  "companyReader.invalidateCache",
                                  deleteCompany(companyName, sqlOut, sheetOut, oppOut,
                                                writerInjected, writerOut, hasInvalidate))

DeleteCompany_v770 ==
    /\ Idle
    /\ \E companyName \in CompanyNameInputs,
          oppOut \in SheetOutcomes(SheetOpportunityRows, MaxJoinRows) :
         \E sheetOut \in After(NoRelatedOpps(companyName, oppOut),
                               SheetOutcomes(SheetCompanyRows \cup {RowlessCompany},
                                             MaxJoinRows),
                               Unused) :
           \E writerOut \in After(/\ sheetOut.kind # "unused"
                                  /\ _findCompanyRowIndex(companyName, sheetOut).ok,
                                  WriterOutcomes, "unused"),
              hasInvalidate \in BOOLEAN :
             FinishMutation("deleteCompany_v770",
                            [companyName |-> companyName, opps |-> oppOut, sheet |-> sheetOut,
                             writer |-> writerOut, hasInvalidate |-> hasInvalidate],
                            "companyReader.invalidateCache",
                            deleteCompany_v770(companyName, oppOut, sheetOut, writerOut,
                                               hasInvalidate))

CreateContact ==
    /\ Idle
    /\ \E writerInjected \in BOOLEAN, hasInvalidate \in BOOLEAN :
         \E writerOut \in After(writerInjected, WriterOutcomes, "unused") :
           FinishMutation("createContact",
                          [writerInjected |-> writerInjected, writer |-> writerOut,
                           hasInvalidate |-> hasInvalidate],
                          "contactCoreReader.invalidateCache",
                          createContact(writerInjected, writerOut, hasInvalidate))

\* store is the SQL contacts table at the write.  The writer's statement
\* update(payload).eq('contact_id', contactId) reports an error only when
\* the request fails: matching no row is no error, so every writer outcome
\* goes with every table
UpdateContact ==
    /\ Idle
    /\ \E contactId \in {"C1", "C9"},
          writerInjected \in BOOLEAN,
          hasInvalidate \in BOOLEAN,
          store \in SeqUpTo(SqlContactRows, MaxJoinRows) :
         \E writerOut \in After(writerInjected, WriterOutcomes, "unused") :
           FinishMutation("updateContact",
                          [contactId |-> contactId, writerInjected |-> writerInjected,
                           writer |-> writerOut, hasInvalidate |-> hasInvalidate,
                           store |-> store],
                          "contactCoreReader.invalidateCache",
                          updateContact(contactId, writerInjected, writerOut, hasInvalidate))

\* store is the SQL contacts table at the write.  The writer's statement
\* delete().eq('contact_id', contactId) reports an error only when
\* the request fails: matching no row is no error, so every writer outcome
\* goes with every table
DeleteContact ==
    /\ Idle
    /\ \E contactId \in {"C1", "C9"},
          writerInjected \in BOOLEAN,
          hasInvalidate \in BOOLEAN,
          store \in SeqUpTo(SqlContactRows, MaxJoinRows) :
         \E writerOut \in After(writerInjected, WriterOutcomes, "unused") :
           FinishMutation("deleteContact",
                          [contactId |-> contactId, writerInjected |-> writerInjected,
                           writer |-> writerOut, hasInvalidate |-> hasInvalidate,
                           store |-> store],
                          "contactCoreReader.invalidateCache",
                          deleteContact(contactId, writerInjected, writerOut, hasInvalidate))

UpdatePotentialContact ==
    /\ Idle
    /\ \E rowIndex \in RowIndexInputs, updateData \in PotentialContactUpdates,
          rawOut \in {NotInjected} \cup SheetOutcomes(RawContactRows, MaxContacts),
          hasInvalidate \in BOOLEAN :
         \E writerOut \in After(PotentialTarget(rowIndex, rawOut) > 0,
                                WriterOutcomes, "unused") :
           FinishMutation("updatePotentialContact",
                          [rowIndex |-> rowIndex, updateData |-> updateData, raw |-> rawOut,
                           writer |-> writerOut, hasInvalidate |-> hasInvalidate],
                          "contactRawReader.invalidateCache",
                          updatePotentialContact(rowIndex, updateData, rawOut, writerOut,
                                                 hasInvalidate))

CreateEvent ==
    /\ Idle
    /\ \E data \in EventData, writerOut \in WriterOutcomes, hook \in EventHooks :
         \E calOut \in After(writerOut = "ok" /\ data.syncToCalendar = "true",
                             {"ok", "throw"}, "unused") :
           Finish("createEvent",
                  [data |-> data, writer |-> writerOut, hook |-> hook,
                   hasInvalidate |-> HasInvalidateCache(hook), calendar |-> calOut],
                  createEvent(data, writerOut, hook, calOut))

UpdateEvent ==
    /\ Idle
    /\ \E rowIndex \in {5, 6}, data \in EventData,
          writerOut \in WriterOutcomes, hook \in EventHooks :
         Finish("updateEvent",
                [rowIndex |-> rowIndex, data |-> data, writer |-> writerOut,
                 hook |-> hook, hasInvalidate |-> HasInvalidateCache(hook)],
                updateEvent(rowIndex, data, writerOut, hook))

DeleteEvent ==
    /\ Idle
    /\ \E rowIndex \in {5, 6}, eventType \in {"Meeting", "Call"},
          writerOut \in WriterOutcomes, hook \in EventHooks :
         Finish("deleteEvent",
                [rowIndex |-> rowIndex, eventType |-> eventType, writer |-> writerOut,
                 hook |-> hook, hasInvalidate |-> HasInvalidateCache(hook)],
                deleteEvent(rowIndex, eventType, writerOut, hook))

DeleteEventLog ==
    /\ Idle
    /\ \E eventId \in {"E1", "E2", "E9"},
          sheetOut \in SheetOutcomes(SheetEventRows, MaxEvents),
          hook \in EventHooks :
         \E writerOut \in After(EventTarget(eventId, sheetOut) > 0,
                                WriterOutcomes, "unused") :
           Finish("deleteEventLog",
                  [eventId |-> eventId, sheet |-> sheetOut, writer |-> writerOut,
                   hook |-> hook, hasInvalidate |-> HasInvalidateCache(hook)],
                  deleteEventLog(eventId, sheetOut, writerOut, hook))


UpdateEventLog ==
    /\ Idle
    /\ \E idOrRowIndex \in EventKeyInputs, data \in EventUpdates,
          sheetOut \in SheetOutcomes(EventLogRows, MaxEvents) :
         LET reached == /\ sheetOut.kind = "list"
                        /\ ResolvedRowIndex(idOrRowIndex, sheetOut.list).ok
             move == /\ reached
                     /\ IsMove(OriginalEvent(idOrRowIndex, data, sheetOut.list),
                               data, sheetOut.list)
         IN  \E deleteOut \in After(move, WriterOutcomes, "unused") :
             \E createOut \in After(deleteOut \in {"ok", "fail"},
                                    WriterOutcomes \cup {"null"}, "unused") :
             \E writerOut \in After(reached /\ ~move, WriterOutcomes, "unused") :
             \E hook \in After(\/ createOut \in {"ok", "fail", "null"}
                               \/ writerOut \in {"ok", "fail"},
                               EventHooks, "unused") :
               Finish("updateEventLog",
                      [idOrRowIndex |-> idOrRowIndex, data |-> data,
                       sheet |-> sheetOut, delete |-> deleteOut,
                       create |-> createOut, writer |-> writerOut, hook |-> hook],
                      updateEventLog(idOrRowIndex, data, sheetOut, deleteOut,
                                     createOut, writerOut, hook))

\* the lookup of a company by name over one read; the names include a
\* second spelling of a company and a name that is a legal-entity suffix
\* only, the SQL rows a company whose name is a parenthesized note only
GetCompanyByName ==
    /\ Idle
    /\ \E companyName \in CompanyNameInputs \cup {NameTechNote, <<"U516C", "U53F8">>} :
         \E sqlOut \in After(companyName # <<>>,
                             SqlOutcomes(SqlCompanyRows
                                           \cup {[company_id |-> "COMP_9",
                                                  company_name |-> <<"(", "x", ")">>]},
                                         MaxCompanies),
                             Unused) :
           \E sheetOut \in After(companyName # <<>> /\ ~SqlServes(sqlOut),
                                 SheetOutcomes(SheetCompanyRows, MaxCompanies), Unused) :
             Finish("_getCompanyByName",
                    [companyName |-> companyName, sql |-> sqlOut, sheet |-> sheetOut],
                    _getCompanyByName(companyName, sqlOut, sheetOut))

\* the five list reads return one row each or fail, one of them at most;
\* the potential contacts carry the company name as the card shows it
GetCompanyDetails ==
    /\ Idle
    /\ \E companyName \in CompanyNameInputs,
          sqlOut \in SqlOutcomes(SqlCompanyRows, MaxJoinRows),
          failed \in 0..5 :
         \E sheetOut \in After(~SqlServes(sqlOut),
                               SheetOutcomes(SheetCompanyRows, MaxJoinRows), Unused),
            contacts \in SeqUpTo(SheetContactRows, MaxJoinRows),
            opps \in SeqUpTo(SheetOpportunityRows, MaxJoinRows) :
           LET Read(n, list) == IF failed = n THEN Threw ELSE Returned(list)
               interOut == Read(3, <<[companyId |-> "COMP_2", opportunityId |-> "OPP1",
                                      interactionTime |-> ""],
                                     [companyId |-> "COMP_1", opportunityId |-> "",
                                      interactionTime |-> "2026-01-02"]>>)
               evOut == Read(4, <<[eventId |-> "E1", createdTime |-> "2026-01-01",
                                   opportunityId |-> "OPP2", companyId |-> ""],
                                  [eventId |-> "E2", createdTime |-> "2026-01-03",
                                   opportunityId |-> "", companyId |-> "COMP_1"]>>)
               potOut == Read(5, <<[rowIndex |-> 2, name |-> <<"K">>, company |-> NameTech],
                                   [rowIndex |-> 3, name |-> <<"L">>, company |-> <<>>]>>)
           IN  Finish("getCompanyDetails",
                      [companyName |-> companyName, sql |-> sqlOut, sheet |-> sheetOut,
                       contacts |-> Read(1, contacts), opps |-> Read(2, opps),
                       interactions |-> interOut, eventLogs |-> evOut, potentials |-> potOut],
                      getCompanyDetails(companyName, sqlOut, sheetOut, Read(1, contacts),
                                        Read(2, opps), interOut, evOut, potOut))

\* of the five list reads one at most is at fault: read n fails when fault
\* is n, and the link read (3) or the contact read (4) answers null when
\* fault is 6 or 7; the link rows carry a status, a status in other
\* letters, another status, or none
GetOpportunityDetails ==
    /\ Idle
    /\ \E opportunityId \in {"OPP1", "OPP2", "OPP7"},
          sqlOut \in SqlOutcomes(SqlOpportunityRows, MaxJoinRows),
          fault \in 0..7 :
         \E sheetOut \in After(~(sqlOut.kind = "list" /\ Len(sqlOut.list) > 0),
                               SheetOutcomes(SheetOpportunityRows, MaxJoinRows), Unused),
            \* the lists of the other reads do not matter once a read threw
            links \in After(fault \notin {1, 2, 5},
                            SeqUpTo({[linkId |-> "L1", opportunityId |-> "OPP1", contactId |-> "C1"],
                                     [linkId |-> "L2", opportunityId |-> "OPP1", contactId |-> "C2",
                                      status |-> <<"A", "c", "t", "i", "v", "e">>],
                                     [linkId |-> "L3", opportunityId |-> "OPP1", contactId |-> "C1",
                                      status |-> <<"d", "e", "l">>],
                                     [linkId |-> "L4", oppId |-> "OPP2", contactId |-> "C2",
                                      status |-> <<"a", "c", "t", "i", "v", "e">>]}, MaxJoinRows),
                            <<>>),
            contacts \in After(fault \notin {1, 2, 5},
                               SeqUpTo(SheetContactRows, MaxJoinRows), <<>>) :
           LET Read(n, list) == IF fault = n THEN Threw
                                ELSE IF n \in {3, 4} /\ fault = n + 3 THEN ReturnedNull
                                ELSE Returned(list)
               interOut == Read(1, <<[interactionId |-> "I1", opportunityId |-> "OPP1",
                                      interactionTime |-> "", createdTime |-> "2026-01-01"],
                                     [interactionId |-> "I2", opportunityId |-> "OPP1",
                                      interactionTime |-> "2026-01-02", createdTime |-> ""]>>)
               evOut == Read(2, <<[eventId |-> "E1", createdTime |-> "",
                                   opportunityId |-> "OPP1"],
                                  [eventId |-> "E2", createdTime |-> "2026-01-03",
                                   opportunityId |-> "OPP1"]>>)
               potOut == Read(5, <<[rowIndex |-> 1, name |-> <<"K">>, company |-> NameAcme,
                                    position |-> <<>>, driveLink |-> ""],
                                   [rowIndex |-> 2, name |-> <<"K">>, company |-> NameAcme,
                                    position |-> <<"V", "P">>, driveLink |-> "d1"],
                                   [rowIndex |-> 3, name |-> <<"L">>, company |-> <<>>,
                                    position |-> <<>>, driveLink |-> ""]>>)
           IN  Finish("getOpportunityDetails",
                      [opportunityId |-> opportunityId, sql |-> sqlOut, sheet |-> sheetOut,
                       interactions |-> interOut, eventLogs |-> evOut,
                       links |-> Read(3, links), contacts |-> Read(4, contacts),
                       potentials |-> potOut],
                      getOpportunityDetails(opportunityId, sqlOut, sheetOut, interOut, evOut,
                                            Read(3, links), Read(4, contacts), potOut))

\* the sheet rows and an archived one; the filters: none, everything
\* included, and field filters
SearchOpportunities ==
    /\ Idle
    /\ \E query \in {<<>>, <<" ", "D">>},
          filters \in {[includeArchived |-> FALSE, stage |-> "", assignee |-> "",
                        status |-> "", minProb |-> <<>>],
                       [includeArchived |-> TRUE, stage |-> "all", assignee |-> "",
                        status |-> "", minProb |-> <<>>],
                       [includeArchived |-> TRUE, stage |-> "s1", assignee |-> "amy",
                        status |-> "open", minProb |-> <<>>],
                       [includeArchived |-> FALSE, stage |-> "", assignee |-> "",
                        status |-> "all", minProb |-> <<"5">>]},
          sqlOut \in SqlOutcomes(SqlOpportunityRows, MaxJoinRows) :
         \E sheetOut \in After(~(sqlOut.kind = "list" /\ Len(sqlOut.list) > 0),
                               SheetOutcomes(SheetOpportunityRows
                                   \cup {[opportunityId |-> "OPP3", opportunityName |-> <<"D", "3">>,
                                          customerCompany |-> NameTech, currentStage |-> "s1",
                                          currentStatus |-> "archived", assignee |-> "amy",
                                          probability |-> <<"5", "0">>,
                                          lastUpdateTime |-> "2026-01-03", rowIndex |-> 4]},
                                             MaxOpportunities), Unused) :
           Finish("searchOpportunities",
                  [query |-> query, filters |-> filters, sql |-> sqlOut, sheet |-> sheetOut],
                  searchOpportunities(query, filters, sqlOut, sheetOut))

\* each reader answers with the record of that eventId, when it has one
GetEventById ==
    /\ Idle
    /\ \E eventId \in {"E1", "E2", "E9"} :
         \E sqlOut \in {NotInjected, Threw, ReturnedNull}
                          \cup {Returned(<<r>>) : r \in {e \in SqlEventRows : e.eventId = eventId}} :
           \E sheetOut \in After(~(sqlOut.kind = "list"),
                                 {Threw, ReturnedNull}
                                     \cup {Returned(<<r>>) :
                                             r \in {e \in SheetEventRows : e.eventId = eventId}},
                                 Unused) :
             \E oppOut \in After(\E o \in {sqlOut, sheetOut} : o.kind = "list",
                                 SheetOutcomes(SheetOpportunityRows, MaxJoinRows), Unused),
                compOut \in After(\E o \in {sqlOut, sheetOut} : o.kind = "list",
                                  SheetOutcomes(SheetCompanyRows, MaxJoinRows), Unused) :
               Finish("getEventById",
                      [eventId |-> eventId, sql |-> sqlOut, sheet |-> sheetOut,
                       opps |-> oppOut, comps |-> compOut],
                      getEventById(eventId, sqlOut, sheetOut, oppOut, compOut))

GetContactById ==
    /\ Idle
    /\ \E contactId \in {"C1", "C2", "C3"} :
         \E byIdOut \in {NotInjected, Threw, ReturnedNull}
                          \cup {Returned(<<c>>) : c \in {r \in SqlContactRows : r.contactId = contactId}} :
           \E compOut \in After(byIdOut.kind = "list",
                                SheetOutcomes(SheetCompanyRows, MaxJoinRows), Unused) :
             \E coreOut \in After(~(byIdOut.kind = "list" /\ compOut.kind = "list"),
                                  {NotInjected}
                                    \cup SheetOutcomes(SheetContactRows, MaxContacts),
                                  Unused) :
               \E compOut2 \in After(coreOut.kind = "list",
                                     SheetOutcomes(SheetCompanyRows, MaxJoinRows), Unused) :
                 Finish("getContactById",
                        [contactId |-> contactId, sql |-> byIdOut, comps |-> compOut,
                         sheet |-> coreOut, sheetComps |-> compOut2],
                        getContactById(contactId, byIdOut, compOut, coreOut, compOut2))

\* the controller hands the result (or the error) to the client; the
\* request is over
Respond ==
    /\ ~Idle
    /\ opName' = "none"
    /\ opInput' = <<>>
    /\ calls' = <<>>
    /\ outcome' = "none"
    /\ result' = <<>>
    /\ error' = ""
    /\ written' = <<>>
    /\ UNCHANGED <<storeRows, pending>>

Next ==
    \/ GetAllCompanies
    \/ FetchInternal
    \/ GetAnnouncements
    \/ CreateAnnouncement
    \/ UpdateAnnouncement
    \/ DeleteAnnouncement
    \/ GetAllEvents
    \/ GetCompanyListWithActivity
    \/ GetAllOfficialContacts
    \/ CreateOpportunity
    \/ UpdateOpportunity
    \/ DeleteOpportunity
    \/ CreateCompany
    \/ UpdateCompany
    \/ DeleteCompany
    \/ DeleteCompany_v770
    \/ CreateContact
    \/ UpdateContact
    \/ DeleteContact
    \/ UpdatePotentialContact
    \/ CreateEvent
    \/ UpdateEvent
    \/ DeleteEvent
    \/ DeleteEventLog
    \/ UpdateEventLog
    \/ GetCompanyByName
    \/ GetCompanyDetails
    \/ GetOpportunityDetails
    \/ SearchOpportunities
    \/ GetEventById
    \/ GetContactById
    \/ Respond

Spec == Init /\ [][Next]_vars

(***************************************************************************)
(* C1  CompanyService._getAllCompanies: when the SQL reader throws,        *)
(* returns a non-array or returns an empty array, the result is the sheet  *)
(* reader's company list mapped through _toServiceDTO; when the SQL        *)
(* reader returns a non-empty array, the result is that array mapped       *)
(* through _toServiceDTO and companyReader.getCompanyList is not called.   *)
(***************************************************************************)
FallbackCorrectness ==
    opName = "_getAllCompanies" =>
        /\ (opInput.sql.kind \in {"throw", "null", "object"}
              \/ (opInput.sql.kind = "list" /\ opInput.sql.list = <<>>))
            => /\ Called(calls, "companyReader.getCompanyList")
               /\ opInput.sheet.kind # "unused"
               /\ opInput.sheet.kind = "list"
                  => /\ outcome = "return"
                     /\ result = Map(_toServiceDTO, opInput.sheet.list)
        /\ (opInput.sql.kind = "list" /\ opInput.sql.list # <<>>)
            => /\ outcome = "return"
               /\ result = Map(_toServiceDTO, opInput.sql.list)
               /\ ~Called(calls, "companyReader.getCompanyList")
               /\ opInput.sheet.kind = "unused"

\* the SQL reader answered [] and the sheet's two companies were served
FallbackCorrectnessWitness ==
    /\ opName = "_getAllCompanies"
    /\ opInput.sql.kind = "list" /\ opInput.sql.list = <<>>
    /\ opInput.sheet.kind = "list" /\ Len(opInput.sheet.list) = 2
    /\ outcome = "return" /\ Len(result) = 2
    /\ result[1].rowIndex = opInput.sheet.list[1].rowIndex

(***************************************************************************)
(* C2  Announcement reads: when the SQL announcement reader returns an     *)
(* empty array without throwing, _fetchInternal (and so getAnnouncements)  *)
(* serves the sheet reader's announcements, not the empty SQL result.      *)
(***************************************************************************)
EmptySqlAnnouncementsServeSheet ==
    /\ (opName = "_fetchInternal"
        /\ opInput.sql.kind = "list" /\ opInput.sql.list = <<>>
        /\ opInput.sheet.kind = "list")
       => (outcome = "return" /\ result = opInput.sheet)
    /\ (opName = "getAnnouncements"
        /\ opInput.sql.kind = "list" /\ opInput.sql.list = <<>>
        /\ opInput.sheet.kind = "list")
       => /\ outcome = "return"
          /\ result = StableSort(Filter(opInput.sheet.list, IsPublished), AnnouncementCmp)

(***************************************************************************)
(* C3  Event-log reads: when the SQL event-log reader returns an empty     *)
(* array without throwing, getAllEvents returns the events of the sheet    *)
(* reader (eventReader.getEventLogs), not an empty list.                   *)
(***************************************************************************)
EmptySqlEventsServeSheet ==
    (opName = "getAllEvents"
     /\ opInput.sql.kind = "list" /\ opInput.sql.list = <<>>
     /\ opInput.opps.kind = "list" /\ opInput.comps.kind = "list")
    => /\ Called(calls, "eventReader.getEventLogs")
       /\ opInput.sheet.kind = "list" => Len(result) = Len(opInput.sheet.list)

OpportunityRowIndexFreshness ==
    opName \in {"updateOpportunity", "deleteOpportunity"}
    => /\ ~Called(calls, "opportunitySqlReader.getOpportunities")
       /\ calls # <<>> /\ calls[1].fn = "opportunityReader.getOpportunities"
       /\ \A i \in 1..Len(calls) :
            calls[i].fn \in {"opportunityWriter.updateOpportunity",
                             "opportunityWriter.deleteOpportunity"}
            => /\ i > 1
               /\ opInput.sheet.kind = "list"
               /\ \E k \in 1..Len(opInput.sheet.list) :
                    opInput.sheet.list[k].rowIndex = calls[i].row
       /\ (opInput.sheet.kind = "list"
           /\ \A k \in 1..Len(opInput.sheet.list) :
                ~RowIs(opInput.sheet.list[k], opInput.rowIndex))
          => /\ outcome = "throw"
             /\ ~Called(calls, "opportunityWriter.updateOpportunity")
             /\ ~Called(calls, "opportunityWriter.deleteOpportunity")

\* an update while the SQL reader is injected and holds rows: the sheet was
\* read, the row was found there and the writer was called
OpportunityRowIndexFreshnessWitness ==
    /\ opName = "updateOpportunity"
    /\ opInput.sql.kind = "list" /\ opInput.sql.list # <<>>
    /\ Len(calls) >= 3
    /\ calls[1].fn = "opportunityReader.getOpportunities"
    /\ calls[3] = CallRow("opportunityWriter.updateOpportunity", 3, "")
    /\ outcome = "return"

(***************************************************************************)
(* C6  updateAnnouncement and deleteAnnouncement resolve their target by   *)
(* a sheet-only read: the lookup never consults the SQL announcement       *)
(* reader.                                                                 *)
(***************************************************************************)
AnnouncementWriteReadsSheetOnly ==
    opName \in {"updateAnnouncement", "deleteAnnouncement"}
    => /\ ~Called(calls, "announcementSqlReader.getAnnouncements")
       /\ Called(calls, "announcementReader.getAnnouncements")

\* the list a lookup of announcements works on: what the SQL reader gave
\* unless it threw or is absent, the sheet list otherwise
ServedAnnouncements ==
    IF opInput.sql.kind = "list" THEN opInput.sql.list
    ELSE IF opInput.sql.kind \in {"throw", "absent"} /\ opInput.sheet.kind = "list"
         THEN opInput.sheet.list
         ELSE <<>>

(***************************************************************************)
(* C7  Announcement write protection: whenever the announcement found for  *)
(* the given id has no rowIndex, updateAnnouncement and deleteAnnouncement *)
(* throw a '[Forbidden]' error and the writer's update or delete           *)
(* primitive is not called.                                                *)
(***************************************************************************)
AnnouncementWriteProtection ==
    (/\ opName \in {"updateAnnouncement", "deleteAnnouncement"}
     /\ \E i \in 1..Len(ServedAnnouncements) :
          /\ ServedAnnouncements[i].id = opInput.id
          /\ \A j \in 1..(i - 1) : ServedAnnouncements[j].id # opInput.id
          /\ "rowIndex" \notin DOMAIN ServedAnnouncements[i])
    => /\ outcome = "throw"
       /\ error = "[Forbidden]"
       /\ ~Called(calls, "announcementWriter.updateAnnouncement")
       /\ ~Called(calls, "announcementWriter.deleteAnnouncement")

\* a delete of A1, which the SQL reader served without a rowIndex, was
\* refused although the writer would have accepted it
AnnouncementWriteProtectionWitness ==
    /\ opName = "deleteAnnouncement"
    /\ opInput.id = "A1"
    /\ opInput.sql.kind = "list" /\ Len(opInput.sql.list) > 0
    /\ opInput.sql.list[1].id = "A1"
    /\ opInput.writer = "ok"
    /\ error = "[Forbidden]"
    /\ calls = <<Call("announcementSqlReader.getAnnouncements")>>

\* v7.8.0: the company deleteCompany resolved is a DTO without rowIndex
ResolvedWithoutRowIndex ==
    /\ opName = "deleteCompany"
    /\ opInput.companyName # <<>>
    /\ SqlServes(opInput.sql)
    /\ \E i \in 1..Len(opInput.sql.list) :
         _normalizeCompanyName(FirstText(opInput.sql.list[i],
                                         <<"companyName", "company_name">>))
             = _normalizeCompanyName(opInput.companyName)

\* v7.7.0: the sheet record _findCompanyRowIndex resolved has no rowIndex
ResolvedWithoutRowIndex_v770 ==
    /\ opName = "deleteCompany_v770"
    /\ opInput.sheet.kind = "list"
    /\ \E i \in 1..Len(opInput.sheet.list) :
         /\ _normalizeCompanyName(opInput.sheet.list[i].companyName)
                = _normalizeCompanyName(opInput.companyName)
         /\ \A j \in 1..(i - 1) :
              _normalizeCompanyName(opInput.sheet.list[j].companyName)
                  # _normalizeCompanyName(opInput.companyName)
         /\ "rowIndex" \notin DOMAIN opInput.sheet.list[i]

DeleteCalls ==
    {i \in 1..Len(calls) : calls[i].fn \in {"companySqlWriter.deleteCompany",
                                            "companyWriter.deleteCompany"}}

MutationOps ==
    {"createCompany", "updateCompany", "deleteCompany", "deleteCompany_v770",
     "createContact", "updateContact", "deleteContact", "updatePotentialContact",
     "createOpportunity", "updateOpportunity", "deleteOpportunity",
     "createEvent", "updateEvent", "deleteEvent", "deleteEventLog",
     "createAnnouncement", "updateAnnouncement", "deleteAnnouncement"}

\* the store writes of these operations
WriterFns ==
    {"companySqlWriter.createCompany", "companySqlWriter.updateCompany",
     "companySqlWriter.deleteCompany", "companyWriter.deleteCompany",
     "contactSqlWriter.createContact", "contactSqlWriter.updateContact",
     "contactSqlWriter.deleteContact", "contactWriter.writePotentialContactRow",
     "opportunityWriter.createOpportunity", "opportunityWriter.updateOpportunity",
     "opportunityWriter.deleteOpportunity",
     "eventWriter.createEventLog", "eventWriter.updateEventLog",
     "eventWriter.deleteEventLog",
     "announcementWriter.createAnnouncement", "announcementWriter.updateAnnouncement",
     "announcementWriter.deleteAnnouncement"}

InvalidateFns ==
    {"companyReader.invalidateCache", "contactCoreReader.invalidateCache",
     "contactRawReader.invalidateCache", "opportunityReader.invalidateCache",
     "eventReader.invalidateCache", "announcementReader.invalidateCache"}

\* the operation made its store write, with the given outcome
StoreWrite(outcomes) ==
    /\ opName \in MutationOps
    /\ \E i \in 1..Len(calls) : calls[i].fn \in WriterFns
    /\ opInput.writer \in outcomes

\* the entity's reader provides invalidateCache
ReaderProvidesInvalidate == Has(opInput, "hasInvalidate") => opInput.hasInvalidate

\* an invalidation call that follows the store write
InvalidatedAfterWrite ==
    \E i \in 1..Len(calls), j \in 1..Len(calls) :
        i < j /\ calls[i].fn \in WriterFns /\ calls[j].fn \in InvalidateFns

(***************************************************************************)
(* C9  Every successful mutation is followed by a cache invalidation: in   *)
(* each create, update and delete operation of company, contact,           *)
(* potential contact, opportunity, event log and announcement, when the    *)
(* writer call returned successfully and the entity's reader provides      *)
(* invalidateCache, invalidateCache is called after the write and before   *)
(* the operation returns.                                                  *)
(***************************************************************************)
SuccessfulMutationInvalidates ==
    (StoreWrite({"ok"}) /\ ReaderProvidesInvalidate)
    => (outcome = "return" /\ InvalidatedAfterWrite)

(***************************************************************************)
(* C10  Failed mutations do not invalidate: in any create, update or       *)
(* delete operation, when the store write failed (the writer threw or      *)
(* returned a result with success false), the entity's cache-invalidation  *)
(* hook is not called in that execution.                                   *)
(***************************************************************************)
FailedMutationDoesNotInvalidate ==
    StoreWrite({"fail", "throw"})
    => \A i \in 1..Len(calls) :
         calls[i].fn \notin InvalidateFns \cup {"eventReader.cache = {}"}

\* the reader's invalidation hook is missing, or it throws when called
HookMissingOrThrows ==
    IF Has(opInput, "hook") THEN opInput.hook # "invalidateCache"
    ELSE /\ Has(opInput, "hasInvalidate")
         /\ (~opInput.hasInvalidate \/ opInput.invalidate = "throw")

(***************************************************************************)
(* C11  Cache invalidation is never fatal: when the writer call of a       *)
(* company, contact, opportunity or event-log mutation succeeded and the   *)
(* reader's invalidation hook is missing or throws, the operation returns  *)
(* the writer's successful result to the caller instead of raising.        *)
(***************************************************************************)
InvalidationNeverFatal ==
    (StoreWrite({"ok"}) /\ HookMissingOrThrows)
    => (outcome = "return" /\ result.success)

\* the original record updateEventLog resolved, as an index into the sheet
\* list (0 if none), and the MOVE condition on it
ResolvedOriginal ==
    OriginalEvent(opInput.idOrRowIndex, opInput.data, opInput.sheet.list)

MoveCondition ==
    /\ ResolvedOriginal > 0
    /\ opInput.sheet.list[ResolvedOriginal].eventType # ""
    /\ Has(opInput.data, "eventType")
    /\ opInput.data.eventType # ""
    /\ opInput.data.eventType # opInput.sheet.list[ResolvedOriginal].eventType

\* the MOVE path was taken: the delete of the original was issued
MovePathTaken ==
    Called(calls, "eventWriter.deleteEventLog")
        \/ Called(calls, "eventWriter.createEventLog")

(***************************************************************************)
(* C12  Move decision of updateEventLog: the operation takes the MOVE path *)
(* (delete + create) if and only if an original record was resolved, its  *)
(* eventType is non-empty, the update carries a non-empty eventType and    *)
(* the two differ; in every other case that does not throw it takes the    *)
(* in-place path and calls the writer's updateEventLog exactly once, with  *)
(* no delete or create call.                                               *)
(***************************************************************************)
MoveDecision ==
    (opName = "updateEventLog" /\ opInput.sheet.kind = "list")
    => /\ MovePathTaken <=> MoveCondition
       /\ (~MoveCondition /\ outcome = "return")
          => /\ CountCalls(calls, "eventWriter.updateEventLog") = 1
             /\ ~MovePathTaken

\* the positions of the calls of fn in the call trace
CallsOf(fn) == {i \in 1..Len(calls) : calls[i].fn = fn}

(***************************************************************************)
(* C13  Move ordering: on the MOVE path updateEventLog calls               *)
(* eventWriter.deleteEventLog exactly once, with the original's rowIndex   *)
(* and eventType, and only after that call has completed calls             *)
(* eventWriter.createEventLog exactly once; the writer's updateEventLog is *)
(* not called; if the delete call fails (it throws or returns a result     *)
(* with success false), createEventLog is never called.                    *)
(***************************************************************************)
MoveOrdering ==
    (opName = "updateEventLog" /\ MovePathTaken)
    => /\ ResolvedOriginal > 0
       /\ Cardinality(CallsOf("eventWriter.deleteEventLog")) = 1
       /\ \A i \in CallsOf("eventWriter.deleteEventLog") :
            /\ calls[i].row = opInput.sheet.list[ResolvedOriginal].rowIndex
            /\ calls[i].type = opInput.sheet.list[ResolvedOriginal].eventType
            /\ \A j \in CallsOf("eventWriter.createEventLog") : i < j
       /\ CallsOf("eventWriter.updateEventLog") = {}
       /\ IF opInput.delete = "ok"
          THEN Cardinality(CallsOf("eventWriter.createEventLog")) = 1
          ELSE CallsOf("eventWriter.createEventLog") = {}

(***************************************************************************)
(* C14  Move identity preservation: on the MOVE path the payload passed to *)
(* createEventLog has eventId and id equal to the original record's        *)
(* eventId, whatever eventId or id the update data carries; it has the     *)
(* original's createdTime whenever the update carries no createdTime; and  *)
(* the value returned to the caller has moved = true.                      *)
(***************************************************************************)
MoveIdentityPreservation ==
    (opName = "updateEventLog" /\ MovePathTaken)
    => /\ ResolvedOriginal > 0
       /\ \A i \in CallsOf("eventWriter.createEventLog") :
            /\ calls[i].data.eventId = opInput.sheet.list[ResolvedOriginal].eventId
            /\ calls[i].data.id = opInput.sheet.list[ResolvedOriginal].eventId
            /\ FirstAtom(opInput.data, <<"createdTime">>) = ""
               => FirstAtom(calls[i].data, <<"createdTime">>)
                      = opInput.sheet.list[ResolvedOriginal].createdTime
            /\ \A k \in DOMAIN opInput.data \ {"eventId", "id", "createdTime"} :
                 calls[i].data[k] = opInput.data[k]
       /\ outcome = "return" => (Has(result, "moved") /\ result.moved)

\* E1 moved from Meeting to Call by row index, although the data names
\* another eventId: the new record is E1 with E1's creation time
MoveIdentityPreservationWitness ==
    /\ opName = "updateEventLog"
    /\ outcome = "return"
    /\ result = [success |-> TRUE, moved |-> TRUE]
    /\ opInput.data = [eventId |-> "E3", id |-> "E1", eventType |-> "Call"]
    /\ opInput.idOrRowIndex = <<"5">>
    /\ \E i \in CallsOf("eventWriter.createEventLog") :
         calls[i].data = [eventId |-> "E1", id |-> "E1", eventType |-> "Call",
                          createdTime |-> "2026-01-01"]

\* the sheet after updateEventLog: the rows it read, changed by the delete
\* and the create that succeeded
SheetAfterMove ==
    LET s0 == SheetOf(opInput.sheet.list)
        del == CallsOf("eventWriter.deleteEventLog")
        cre == CallsOf("eventWriter.createEventLog")
        s1 == IF del # {} /\ opInput.delete = "ok"
              THEN LET i == CHOOSE i \in del : TRUE
                   IN  SheetDelete(s0, calls[i].row, calls[i].type)
              ELSE s0
    IN  IF cre # {} /\ opInput.create = "ok"
        THEN LET j == CHOOSE j \in cre : TRUE IN SheetCreate(s1, calls[j].data)
        ELSE s1

\* E1 or E2 moved to the other partition: delete and create both succeeded
SuccessfulMove ==
    /\ opName = "updateEventLog"
    /\ opInput.sheet.kind = "list"
    /\ SheetIsConsistent(opInput.sheet.list)
    /\ MoveCondition
    /\ opInput.delete = "ok"
    /\ opInput.create = "ok"
    /\ outcome = "return"

(***************************************************************************)
(* C15  After a successful move of an event with identity X from category  *)
(* A to category B, against a category-partitioned store, a sheet read     *)
(* finds exactly one record with eventId X, it lies in partition B, and no *)
(* record with eventId X remains in partition A at the original row index. *)
(***************************************************************************)
MovedRecordIsUnique ==
    SuccessfulMove
    => LET original == opInput.sheet.list[ResolvedOriginal]
           found == {r \in SheetAfterMove : r.eventId = original.eventId}
       IN  /\ Cardinality(found) = 1
           /\ \A r \in found : r.eventType = opInput.data.eventType
           /\ ~\E r \in SheetAfterMove :
                  /\ r.eventType = original.eventType
                  /\ r.rowIndex = original.rowIndex
                  /\ r.eventId = original.eventId

\* E1 moved from Meeting to Call while E2 holds row 5 of Call: E1 is now
\* the one record with that id, in Call, at a fresh row
MovedRecordIsUniqueWitness ==
    /\ SuccessfulMove
    /\ Len(opInput.sheet.list) = 2
    /\ opInput.sheet.list[ResolvedOriginal].eventId = "E1"
    /\ \E r \in SheetAfterMove :
         r.eventId = "E1" /\ r.eventType = "Call" /\ r.rowIndex # 5
    /\ \E r \in SheetAfterMove : r.eventId = "E2" /\ r.rowIndex = 5

\* the writer calls of the event-log operations
EventWriterCalls ==
    CallsOf("eventWriter.deleteEventLog") \cup CallsOf("eventWriter.createEventLog")
        \cup CallsOf("eventWriter.updateEventLog")

(***************************************************************************)
(* C16  Move inconsistency is surfaced, not compensated: when on the MOVE  *)
(* path the delete succeeds and createEventLog throws, updateEventLog      *)
(* rethrows that error to the caller, makes no further writer call (no     *)
(* re-creation of the original, no retry), and the original record is then *)
(* absent from the store.                                                  *)
(***************************************************************************)
MoveInconsistencySurfaced ==
    (opName = "updateEventLog" /\ opInput.delete = "ok" /\ opInput.create = "throw")
    => /\ outcome = "throw"
       /\ error = "writerError"
       /\ Cardinality(EventWriterCalls) = 2
       /\ calls[Len(calls)].fn = "eventWriter.createEventLog"
       /\ calls[Len(calls) - 1].fn = "eventWriter.deleteEventLog"
       /\ SheetIsConsistent(opInput.sheet.list)
          => /\ opInput.sheet.list[ResolvedOriginal] \notin SheetAfterMove
             /\ \A r \in SheetAfterMove :
                  r.eventId # opInput.sheet.list[ResolvedOriginal].eventId

\* E2 was deleted from Call and its re-creation under Meeting threw: the
\* caller got the error and the sheet has lost E2
MoveInconsistencySurfacedWitness ==
    /\ opName = "updateEventLog"
    /\ opInput.delete = "ok"
    /\ opInput.create = "throw"
    /\ outcome = "throw"
    /\ SheetIsConsistent(opInput.sheet.list)
    /\ opInput.sheet.list[ResolvedOriginal].eventId = "E2"
    /\ SheetAfterMove = SheetOf(opInput.sheet.list)
                            \ {opInput.sheet.list[ResolvedOriginal]}
    /\ SheetAfterMove # {}

\* the sheet record with the eventId the update data carries, as an index
\* into the sheet list (0 if none)
RecordOfDataId ==
    LET id == FirstAtom(opInput.data, <<"eventId", "id">>)
        at == {i \in 1..Len(opInput.sheet.list) : opInput.sheet.list[i].eventId = id}
    IN  IF id = "" \/ at = {} THEN 0 ELSE CHOOSE i \in at : \A j \in at : i <= j

\* the update data carries the eventId of record A and the key argument is
\* the row index of another record B
IdAndRowIndexDisagree ==
    /\ opName = "updateEventLog"
    /\ opInput.sheet.kind = "list"
    /\ RecordOfDataId > 0
    /\ Number(opInput.idOrRowIndex).int
    /\ \E b \in 1..Len(opInput.sheet.list) :
         /\ opInput.sheet.list[b].rowIndex = Number(opInput.idOrRowIndex).n
         /\ opInput.sheet.list[b].eventId
                # opInput.sheet.list[RecordOfDataId].eventId

(***************************************************************************)
(* C17  Id match takes priority over row-index match in updateEventLog:    *)
(* when the update data carries an eventId that matches record A and the   *)
(* idOrRowIndex argument is the row index of a different record B, the     *)
(* store record that is modified (in place, or deleted and recreated) is   *)
(* A and never B: every writer call is addressed to A.                     *)
(***************************************************************************)
IdMatchPriority ==
    IdAndRowIndexDisagree
    => LET A == opInput.sheet.list[RecordOfDataId]
       IN  /\ \A i \in CallsOf("eventWriter.updateEventLog") :
                calls[i].row = A.rowIndex
           /\ \A i \in CallsOf("eventWriter.deleteEventLog") :
                calls[i].row = A.rowIndex /\ calls[i].type = A.eventType
           /\ \A i \in CallsOf("eventWriter.createEventLog") :
                calls[i].data.eventId = A.eventId

\* the sheet record whose eventId is the key argument, as an index into the
\* sheet list (0 if none)
RecordOfKey ==
    LET at == {i \in 1..Len(opInput.sheet.list) :
                   AsText(opInput.sheet.list[i].eventId) = opInput.idOrRowIndex}
    IN  IF at = {} THEN 0 ELSE CHOOSE i \in at : \A j \in at : i <= j

(***************************************************************************)
(* C18  Id-keyed category change is a move: when updateEventLog is called  *)
(* with an existing event's id as its key argument, the update data        *)
(* carrying no eventId or id, and the update's eventType differs from the  *)
(* stored non-empty eventType, the operation performs delete-then-create   *)
(* (MOVE) and no in-place update at the old row index.                     *)
(***************************************************************************)
IdKeyedCategoryChangeIsMove ==
    (/\ opName = "updateEventLog"
     /\ opInput.sheet.kind = "list"
     /\ RecordOfKey > 0
     /\ FirstAtom(opInput.data, <<"eventId", "id">>) = ""
     /\ FirstAtom(opInput.data, <<"eventType">>) # ""
     /\ opInput.sheet.list[RecordOfKey].eventType # ""
     /\ opInput.data.eventType # opInput.sheet.list[RecordOfKey].eventType)
    => /\ CallsOf("eventWriter.updateEventLog") = {}
       /\ \E i \in CallsOf("eventWriter.deleteEventLog") :
            /\ calls[i].row = opInput.sheet.list[RecordOfKey].rowIndex
            /\ calls[i].type = opInput.sheet.list[RecordOfKey].eventType
            /\ opInput.delete = "ok"
               => \E j \in CallsOf("eventWriter.createEventLog") : i < j

(***************************************************************************)
(* C19  Unresolvable event update is NotFound: when neither an id-based    *)
(* match (the eventId of the data, or the key argument taken as an         *)
(* eventId) nor an integer row-index match finds a record in the sheet     *)
(* event list, updateEventLog raises a not-found error and makes no call   *)
(* to any writer primitive (update, delete or create).                     *)
(***************************************************************************)
UnresolvableUpdateIsNotFound ==
    (/\ opName = "updateEventLog"
     /\ opInput.sheet.kind = "list"
     /\ RecordOfDataId = 0
     /\ RecordOfKey = 0
     /\ ~\E i \in 1..Len(opInput.sheet.list) :
            /\ Number(opInput.idOrRowIndex).int
            /\ opInput.sheet.list[i].rowIndex = Number(opInput.idOrRowIndex).n)
    => /\ outcome = "throw"
       /\ error = "notFound"
       /\ EventWriterCalls = {}

\* two records of different partitions share the row index the key names,
\* and the update data names the partition of one of them and no eventId;
\* the indices of the records of the other partition
OtherPartitionRecords ==
    IF /\ opName = "updateEventLog"
       /\ opInput.sheet.kind = "list"
       /\ Number(opInput.idOrRowIndex).int
       /\ FirstAtom(opInput.data, <<"eventId", "id">>) = ""
       /\ FirstAtom(opInput.data, <<"eventType">>) # ""
    THEN {i \in 1..Len(opInput.sheet.list) :
            /\ opInput.sheet.list[i].rowIndex = Number(opInput.idOrRowIndex).n
            /\ opInput.sheet.list[i].eventType # opInput.data.eventType
            /\ \E j \in 1..Len(opInput.sheet.list) :
                 /\ opInput.sheet.list[j].rowIndex = opInput.sheet.list[i].rowIndex
                 /\ opInput.sheet.list[j].eventType = opInput.data.eventType}
    ELSE {}

(***************************************************************************)
(* C20  A row index is never reinterpreted under another partition: when   *)
(* two event logs in different eventType partitions have the same rowIndex *)
(* and updateEventLog is called with that row index, an update data        *)
(* eventType naming one of the partitions and no eventId, the record of    *)
(* the other partition is neither deleted nor modified and its eventId is  *)
(* not given to a new record.                                              *)
(***************************************************************************)
RowIndexStaysInPartition ==
    \A o \in OtherPartitionRecords :
        /\ \A i \in CallsOf("eventWriter.deleteEventLog") :
             ~(/\ calls[i].row = opInput.sheet.list[o].rowIndex
               /\ calls[i].type = opInput.sheet.list[o].eventType)
        /\ \A i \in CallsOf("eventWriter.updateEventLog") :
             ~(/\ calls[i].row = opInput.sheet.list[o].rowIndex
               /\ FirstAtom(calls[i].data, <<"eventType">>)
                      = opInput.sheet.list[o].eventType)
        /\ \A i \in CallsOf("eventWriter.createEventLog") :
             calls[i].data.eventId # opInput.sheet.list[o].eventId

\* the opportunities the reader returned whose customerCompany normalizes to
\* the name of the company being deleted, as indices into the returned list
RelatedOppsOfInput ==
    IF opName \in {"deleteCompany", "deleteCompany_v770"} /\ opInput.opps.kind = "list"
    THEN {i \in 1..Len(opInput.opps.list) :
            _normalizeCompanyName(opInput.opps.list[i].customerCompany)
                = _normalizeCompanyName(opInput.companyName)}
    ELSE {}

(***************************************************************************)
(* C21  Company deletion is refused while dependents exist: when the       *)
(* opportunities read for deleteCompany hold at least one opportunity      *)
(* whose customerCompany normalizes to the name of the company being       *)
(* deleted, deleteCompany throws an error that carries the number of       *)
(* related opportunities and the name of one of them, no store delete call *)
(* is made and the company cache is not invalidated.                       *)
(***************************************************************************)
DeletionRefusedWhileDependentsExist ==
    RelatedOppsOfInput # {} =>
        /\ outcome = "throw"
        /\ error = "has related opportunities"
        /\ result.count = Cardinality(RelatedOppsOfInput)
        /\ \E i \in RelatedOppsOfInput :
             result.example = opInput.opps.list[i].opportunityName
        /\ DeleteCalls = {}
        /\ ~Called(calls, "companyReader.invalidateCache")

DeletionRefusedWhileDependentsExistWitness ==
    /\ opName = "deleteCompany"
    /\ opInput.companyName = NameTech
    /\ RelatedOppsOfInput # {}
    /\ outcome = "throw"
    /\ result = [count |-> 1, example |-> <<>>]

\* the result of _getCompanyByName for another name over the reads of the
\* operation
LookupOverSameList(name) == _getCompanyByName(name, opInput.sql, opInput.sheet).val

\* the names compared with the name of the lookup
NameSpellings ==
    {<<>>, NameAcme, NameTech, NameTechNote, <<"Z">>, <<"U516C", "U53F8">>, <<"(", "x", ")">>}

\* the list _getAllCompanies serves to the operation
ServedCompanyList ==
    IF SqlServes(opInput.sql) THEN Map(_toServiceDTO, opInput.sql.list)
    ELSE IF opInput.sheet.kind = "list" THEN Map(_toServiceDTO, opInput.sheet.list)
    ELSE <<>>

\* the companies of the served list whose name normalizes to the name of
\* the operation, as indices into that list
SameNormalizedName ==
    {i \in 1..Len(ServedCompanyList) :
        _normalizeCompanyName(ServedCompanyList[i].companyName)
            = _normalizeCompanyName(opInput.companyName)}

\* createCompany with a name that normalizes to the name of an existing
\* company returns existed: true with the id of the first such company and
\* makes no writer create call
DuplicateCompanyDetected ==
    (opName = "createCompany" /\ SameNormalizedName # {})
    => /\ outcome = "return"
       /\ \E i \in SameNormalizedName :
            /\ \A j \in SameNormalizedName : i <= j
            /\ result = [success |-> TRUE, id |-> ServedCompanyList[i].companyId,
                         name |-> ServedCompanyList[i].companyName,
                         existed |-> TRUE, data |-> ServedCompanyList[i]]
       /\ ~Called(calls, "companySqlWriter.createCompany")

(***************************************************************************)
(* C22 as stated  Name-join symmetry and duplicate detection: for any two  *)
(* name strings n1, n2 with the same normalized form, _getCompanyByName(n1)*)
(* and _getCompanyByName(n2) return the same company record over the same  *)
(* list; createCompany with a name whose normalized form equals that of an *)
(* existing company returns existed: true with the existing companyId and  *)
(* makes no writer create call.                                            *)
(***************************************************************************)
NameJoinSymmetryForAnyName ==
    /\ (opName = "_getCompanyByName" /\ outcome = "return" /\ opInput.sql.kind # "unused")
       => \A n2 \in NameSpellings :
            _normalizeCompanyName(n2) = _normalizeCompanyName(opInput.companyName)
                => LookupOverSameList(n2) = result
    /\ DuplicateCompanyDetected

(***************************************************************************)
(* C22  Name-join symmetry and duplicate detection: for any two non-empty  *)
(* name strings n1, n2 with the same normalized form, _getCompanyByName(n1)*)
(* and _getCompanyByName(n2) return the same company record over the same  *)
(* list, while the empty name finds no company; createCompany with a       *)
(* non-empty name whose normalized form equals that of an existing company *)
(* returns existed: true with the existing companyId and makes no writer   *)
(* create call.                                                            *)
(***************************************************************************)
NameJoinSymmetry ==
    /\ (opName = "_getCompanyByName" /\ outcome = "return" /\ opInput.sql.kind # "unused")
       => \A n2 \in NameSpellings :
            _normalizeCompanyName(n2) = _normalizeCompanyName(opInput.companyName)
                => IF n2 = <<>> THEN LookupOverSameList(n2) = [found |-> FALSE, dto |-> <<>>]
                   ELSE LookupOverSameList(n2) = result
    /\ DuplicateCompanyDetected

\* the company stored as NameTech is found under the spelling NameTechNote
NameJoinSymmetryWitness ==
    /\ opName = "_getCompanyByName"
    /\ opInput.companyName = NameTechNote
    /\ outcome = "return"
    /\ opInput.sheet.kind = "list"
    /\ Len(opInput.sheet.list) > 0
    /\ opInput.sheet.list[1].companyName = NameTech
    /\ result = [found |-> TRUE, dto |-> _toServiceDTO(opInput.sheet.list[1])]
    /\ result = LookupOverSameList(NameTech)

\* the raw records _getAllCompanies mapped through _toServiceDTO
ServedRawCompanies ==
    IF SqlServes(opInput.sql) THEN opInput.sql.list ELSE opInput.sheet.list

\* the canonical field k of the raw record is present and non-empty
CanonicalPresent(raw, k) ==
    /\ Has(raw, k)
    /\ IF k \in {"companyName", "phone", "address", "county", "introduction"}
       THEN raw[k] # <<>>
       ELSE raw[k] # ""

(***************************************************************************)
(* C23  DTO normalization is idempotent: for every raw company record of   *)
(* the sheet schema (camelCase fields) or the SQL schema (snake_case and   *)
(* legacy alias fields), _toServiceDTO(_toServiceDTO(raw)) equals          *)
(* _toServiceDTO(raw) field by field, rowIndex included, and when a        *)
(* canonical field and one of its aliases are both non-empty the value of  *)
(* the canonical field is the one kept.                                    *)
(***************************************************************************)
DtoNormalizationIdempotent ==
    (opName = "_getAllCompanies" /\ outcome = "return")
    => \A i \in 1..Len(result) :
         /\ _toServiceDTO(result[i]) = result[i]
         /\ Has(result[i], "rowIndex") = Has(ServedRawCompanies[i], "rowIndex")
         /\ Has(result[i], "rowIndex")
              => result[i].rowIndex = ServedRawCompanies[i].rowIndex
         /\ \A k \in DOMAIN result[i] \ {"rowIndex"} :
              CanonicalPresent(ServedRawCompanies[i], k)
                => result[i][k] = ServedRawCompanies[i][k]

DtoNormalizationIdempotentWitness ==
    /\ opName = "_getAllCompanies"
    /\ outcome = "return"
    /\ opInput.sql.kind = "list"
    /\ opInput.sql.list = <<MixedCompanyRow>>
    /\ result = <<_toServiceDTO(result[1])>>
    /\ result[1].companyId = "COMP_1"
    /\ result[1].lastUpdateTime = "2026-01-03"
    /\ result[1].rowIndex = 0

\* _getAllCompanies served a list and none of the five list reads failed
AllDetailReadsSucceeded ==
    /\ SqlServes(opInput.sql) \/ opInput.sheet.kind = "list"
    /\ \A r \in {opInput.contacts, opInput.opps, opInput.interactions,
                 opInput.eventLogs, opInput.potentials} : r.kind = "list"

(***************************************************************************)
(* C24  getCompanyDetails returns an empty shell for an unknown company:   *)
(* when no company's normalized name equals the normalized lookup name and *)
(* all reads succeed, the result is exactly companyInfo null with          *)
(* contacts, opportunities, potentialContacts, interactions and eventLogs  *)
(* all empty arrays, and no error is raised.                               *)
(***************************************************************************)
EmptyShellForUnknownCompany ==
    (/\ opName = "getCompanyDetails"
     /\ AllDetailReadsSucceeded
     /\ SameNormalizedName = {})
    => /\ outcome = "return"
       /\ result = [companyInfo |-> Null, contacts |-> <<>>, opportunities |-> <<>>,
                    potentialContacts |-> <<>>, interactions |-> <<>>,
                    eventLogs |-> <<>>]

\* the company list holds a company, the opportunity list an opportunity of
\* the unknown name's spelling, and the shell is returned all the same
EmptyShellForUnknownCompanyWitness ==
    /\ opName = "getCompanyDetails"
    /\ AllDetailReadsSucceeded
    /\ ServedCompanyList # <<>>
    /\ SameNormalizedName = {}
    /\ opInput.companyName = NameTech
    /\ Len(opInput.opps.list) = 1
    /\ opInput.opps.list[1].customerCompany = NameTechNote
    /\ outcome = "return"

\* the opportunities _fetchOpportunities() serves to getOpportunityDetails
ServedOpportunities ==
    _fetchOpportunities(FALSE, opInput.sql, opInput.sheet)

\* getOpportunityDetails was asked for an opportunityId no served
\* opportunity has, and every read succeeded with a list
UnknownOpportunityRequested ==
    /\ opName = "getOpportunityDetails"
    /\ ServedOpportunities.ok
    /\ \A r \in {opInput.interactions, opInput.eventLogs, opInput.links,
                 opInput.contacts, opInput.potentials} : r.kind = "list"
    /\ \A i \in 1..Len(ServedOpportunities.val) :
           ServedOpportunities.val[i].opportunityId # opInput.opportunityId

(***************************************************************************)
(* C25  getOpportunityDetails returns an empty shell for an unknown        *)
(* opportunity: when no opportunity has the requested opportunityId, the   *)
(* operation returns an aggregate with a null primary entity and empty     *)
(* relation arrays rather than raising an error.                           *)
(***************************************************************************)
UnknownOpportunityGivesEmptyShell ==
    UnknownOpportunityRequested
    => /\ outcome = "return"
       /\ result = [opportunityInfo |-> Null, interactions |-> <<>>,
                    eventLogs |-> <<>>, linkedContacts |-> <<>>,
                    potentialContacts |-> <<>>, parentOpportunity |-> Null,
                    childOpportunities |-> <<>>]

\* what the code does instead: the unknown opportunityId is an error
UnknownOpportunityRaises ==
    UnknownOpportunityRequested => (outcome = "throw" /\ error = "notFound")

\* ContactService.getLinkedContacts over the link, contact and potential
\* contact data getOpportunityDetails was served, its official contacts
\* coming from the CORE sheet
LinkedContactsOfInput ==
    getLinkedContacts(opInput.opportunityId, opInput.links, NotInjected,
                      opInput.contacts, Returned(<<>>), opInput.potentials).val

ContactIdsOf(list) == {list[i].contactId : i \in 1..Len(list)}

(***************************************************************************)
(* C26  Missing link status means active on every path: a link row with no *)
(* status field is treated as active both by getOpportunityDetails         *)
(* (linkedContacts) and by ContactService.getLinkedContacts, so the two    *)
(* operations return the same set of contactIds for the same opportunity   *)
(* and the same link and contact data.                                     *)
(***************************************************************************)
MissingStatusIsActiveOnEveryPath ==
    (/\ opName = "getOpportunityDetails"
     /\ outcome = "return"
     /\ opInput.links.kind = "list"
     /\ opInput.contacts.kind = "list")
    => ContactIdsOf(result.linkedContacts) = ContactIdsOf(LinkedContactsOfInput)

\* the try block of getCompanyListWithActivity answered the request
CompanyListFromTry ==
    /\ opName = "getCompanyListWithActivity"
    /\ outcome = "return"
    /\ CompanyListTry(opInput.filters, opInput.sql, opInput.sheet,
                      opInput.interactions, opInput.eventLogs).ok

\* the opportunities of the store that belong to the company, by name
OpportunityIdsOf(c) ==
    {o.opportunityId : o \in {r \in SheetOpportunityRows :
         _normalizeCompanyName(r.customerCompany) = _normalizeCompanyName(c.companyName)}}

\* the parseable timestamps of the interactions and event logs of the
\* company, by companyId or through one of its opportunities
ActivityTimesOf(c) ==
    LET OfCompany(x) == \/ x.companyId = c.companyId
                        \/ x.opportunityId \in OpportunityIdsOf(c)
        Dates(items, keys) ==
            {FirstAtom(items[i], keys) : i \in {j \in 1..Len(items) : OfCompany(items[j])}}
    IN  {getTime(s) : s \in (Dates(opInput.interactions.list, <<"interactionTime", "date">>)
                             \cup Dates(opInput.eventLogs.list, <<"createdTime">>))
                            \ InvalidDates}

ExpectedLastActivity(c) ==
    IF ActivityTimesOf(c) # {}
    THEN toISOString(CHOOSE t \in ActivityTimesOf(c) : \A u \in ActivityTimesOf(c) : u <= t)
    ELSE IF c.createdTime \in InvalidDates THEN Null
    ELSE toISOString(getTime(c.createdTime))

(***************************************************************************)
(* C27  Last-activity aggregation in getCompanyListWithActivity: each      *)
(* returned company's lastActivity is the maximum parseable timestamp over *)
(* all interactions and event logs associated with that company either     *)
(* directly by companyId or transitively through an opportunity of that    *)
(* company; if there is none it is the company's own createdTime (null if  *)
(* that is absent or unparseable); unparseable dates never affect the      *)
(* result.                                                                 *)
(***************************************************************************)
LastActivityAggregation ==
    CompanyListFromTry
    => \A i \in 1..Len(result) : result[i].lastActivity = ExpectedLastActivity(result[i])

(***************************************************************************)
(* C28  Filters are AND-combined on every returned list: every company     *)
(* returned by getCompanyListWithActivity(filters) matches the free-text   *)
(* query q (when non-empty) and equals each supplied type, stage and       *)
(* rating filter other than 'all', in every execution that returns a list, *)
(* whatever reads succeed or fail during the call.                         *)
(***************************************************************************)
FiltersOnEveryReturnedList ==
    (opName = "getCompanyListWithActivity" /\ outcome = "return")
    => \A i \in 1..Len(result) : MatchesFilters(result[i], opInput.filters)

\* the filters hold on every list the try block returns
FiltersOnTryList ==
    CompanyListFromTry
    => \A i \in 1..Len(result) : MatchesFilters(result[i], opInput.filters)

FnsCalled == {calls[i].fn : i \in 1..Len(calls)}

(***************************************************************************)
(* C29  Contact write authority: createContact, updateContact and          *)
(* deleteContact call only the SQL contact writer and never the sheet      *)
(* contact writer, and when no SQL writer is configured they throw before  *)
(* any write and before any cache invalidation; updatePotentialContact     *)
(* reads only the RAW sheet reader and writes only through the sheet       *)
(* writer's writePotentialContactRow, never touching the SQL reader or     *)
(* writer.                                                                 *)
(***************************************************************************)
ContactWriteAuthority ==
    /\ opName = "createContact"
       => FnsCalled \subseteq {"contactSqlWriter.createContact",
                               "contactCoreReader.invalidateCache"}
    /\ opName = "updateContact"
       => FnsCalled \subseteq {"contactSqlWriter.updateContact",
                               "contactCoreReader.invalidateCache"}
    /\ opName = "deleteContact"
       => FnsCalled \subseteq {"contactSqlWriter.deleteContact",
                               "contactCoreReader.invalidateCache"}
    /\ (opName \in {"createContact", "updateContact", "deleteContact"}
        /\ ~opInput.writerInjected)
       => (outcome = "throw" /\ calls = <<>>)
    /\ opName = "updatePotentialContact"
       => FnsCalled \subseteq {"contactRawReader.getContacts",
                               "contactWriter.writePotentialContactRow",
                               "contactRawReader.invalidateCache"}

\* a contact is deleted with no SQL writer configured while the CORE reader
\* offers invalidateCache
ContactWriteAuthorityWitness ==
    /\ opName = "deleteContact"
    /\ ~opInput.writerInjected
    /\ opInput.hasInvalidate
    /\ outcome = "throw"
    /\ error = "ContactSqlWriter not configured"

\* updateContact or deleteContact ran with a SQL writer for a contactId that
\* no row of the SQL contacts table has
UnknownContactWritten ==
    /\ opName \in {"updateContact", "deleteContact"}
    /\ opInput.writerInjected
    /\ \A i \in 1..Len(opInput.store) : opInput.store[i].contactId # opInput.contactId

(***************************************************************************)
(* C30  Updating or deleting an official contact whose contactId resolves  *)
(* to no record surfaces a NotFound error to the caller:                   *)
(* ContactService.updateContact / deleteContact do not return              *)
(* { success: true } when no contact with that id exists in the SQL store. *)
(***************************************************************************)
UnknownContactIsNotFound ==
    UnknownContactWritten => outcome = "throw"

\* the operations that join lists of several readers
JoinOps ==
    {"getOpportunityDetails", "searchOpportunities", "getCompanyDetails",
     "getCompanyListWithActivity", "getAllEvents", "getEventById"}

(***************************************************************************)
(* C31  Join operations are read-only over their inputs:                   *)
(* getOpportunityDetails, searchOpportunities, getCompanyDetails,          *)
(* getCompanyListWithActivity, getAllEvents and getEventById leave every   *)
(* record object and every list returned by a reader (and thus any reader  *)
(* cache holding them) unchanged: no field added or modified, no list      *)
(* reordered.                                                              *)
(***************************************************************************)
JoinsAreReadOnly ==
    opName \in JoinOps
    => \A k \in DOMAIN written : written[k] = opInput[k].list

\* the clone-first joins write to no list a reader returned
CloningJoinsAreReadOnly ==
    opName \in JoinOps \ {"getOpportunityDetails", "searchOpportunities"}
    => written = <<>>

\* the constituent reads of the running join that failed: the converged
\* read (its sheet fallback threw) or one of the reads joined with it
FailedConstituentReads ==
    LET reads == CASE opName = "getCompanyDetails" ->
                          {"sheet", "contacts", "opps", "interactions", "eventLogs", "potentials"}
                   [] opName = "getOpportunityDetails" ->
                          {"sheet", "interactions", "eventLogs", "links", "contacts", "potentials"}
                   [] opName = "getCompanyListWithActivity" ->
                          {"sheet", "interactions", "eventLogs"}
                   [] opName \in {"getEventById", "getAllEvents"} -> {"sheet", "opps", "comps"}
                   [] OTHER -> {}
    IN  {k \in reads : opInput[k].kind = "throw"}

(***************************************************************************)
(* C32  Partial results are never joined: an aggregate or joined view      *)
(* (getCompanyDetails, getOpportunityDetails, getCompanyListWithActivity,  *)
(* getEventById, getAllEvents) is returned to the caller only if every     *)
(* constituent read it issues has resolved successfully; if any one of     *)
(* those reads fails, no view built from the remaining reads is returned.  *)
(***************************************************************************)
PartialResultsNeverJoined ==
    FailedConstituentReads # {}
    => (outcome = "throw" \/ ToString(result) \in {ToString(<<>>), ToString(Null)})

\* the joins that await all their reads together hold the rule
JointlyAwaitedJoinsAreWhole ==
    (opName \in {"getCompanyDetails", "getOpportunityDetails", "getAllEvents"}
     /\ FailedConstituentReads # {})
    => (outcome = "throw" \/ result = <<>>)

\* the opportunity deleteOpportunity resolved and the companies it read
DeletedOpportunity ==
    OpportunityTarget(opInput.rowIndex, opInput.sql, opInput.sheet).row

\* the join of each operation, asked whether opportunity o belongs to
\* company c
DetailsJoins(o, c) == relatedOpps(<<o>>, c.companyName) = <<o>>

DeleteCheckJoins(o, c) == ~NoRelatedOpps(c.companyName, Returned(<<o>>))

CountyJoins(o, c) ==
    getOpportunitiesByCounty("", NotInjected, Returned(<<o>>), Returned(<<c>>)).val
        = <<[county |-> c.county, count |-> 1]>>

CompanyLookupJoins(o, c) == CompanyOfOpportunity(<<c>>, o) = 1

(***************************************************************************)
(* C33  All opportunity-to-company name joins use the same normalization   *)
(* on both sides: for any opportunity and company whose names are equal    *)
(* under _normalizeCompanyName, every join in the code matches them, i.e.  *)
(* getCompanyDetails, deleteCompany's dependent check,                     *)
(* getOpportunitiesByCounty's county lookup and deleteOpportunity's        *)
(* company lookup agree on whether the opportunity belongs to the company. *)
(***************************************************************************)
NameJoinsAgree ==
    (/\ opName = "deleteOpportunity"
     /\ opInput.comps.kind = "list")
    => \A i \in 1..Len(opInput.comps.list) :
          (/\ opInput.comps.list[i].county # <<>>
           /\ _normalizeCompanyName(opInput.comps.list[i].companyName)
                  = _normalizeCompanyName(DeletedOpportunity.customerCompany))
          => /\ DetailsJoins(DeletedOpportunity, opInput.comps.list[i])
             /\ DeleteCheckJoins(DeletedOpportunity, opInput.comps.list[i])
             /\ CountyJoins(DeletedOpportunity, opInput.comps.list[i])
             /\ CompanyLookupJoins(DeletedOpportunity, opInput.comps.list[i])

\* the two joins of CompanyService match every such pair
CompanyServiceJoinsAgree ==
    (/\ opName = "deleteOpportunity"
     /\ opInput.comps.kind = "list")
    => \A i \in 1..Len(opInput.comps.list) :
          _normalizeCompanyName(opInput.comps.list[i].companyName)
                  = _normalizeCompanyName(DeletedOpportunity.customerCompany)
          => /\ DetailsJoins(DeletedOpportunity, opInput.comps.list[i])
             /\ DeleteCheckJoins(DeletedOpportunity, opInput.comps.list[i])

\* the position of the first record of the list that has the name and a
\* non-empty position, '' when there is none
FirstTitled(records, targetName) ==
    LET Titled(c) == c.name = targetName /\ FirstText(c, <<"position">>) # <<>>
    IN  IF FindIndex(records, Titled) = 0 THEN <<>>
        ELSE FirstText(records[FindIndex(records, Titled)], <<"position">>)

DetailsReturned == opName = "getOpportunityDetails" /\ outcome = "return"

MainContactOfDetails == trim(FirstText(result.opportunityInfo, <<"mainContact">>))

(***************************************************************************)
(* C34  Cascading job-title lookup in getOpportunityDetails: for a         *)
(* non-empty mainContact name, mainContactJobTitle is the position of the  *)
(* first record with that name and a non-empty position, searching in      *)
(* order the linked contacts, then the potential contacts of the same      *)
(* normalized company; a linked contact with the name and a non-empty      *)
(* position always gives the title; with no such record anywhere the title *)
(* is '' and no error is raised.                                           *)
(***************************************************************************)
JobTitleCascade ==
    (DetailsReturned /\ MainContactOfDetails # <<>>)
    => result.opportunityInfo.mainContactJobTitle
           = FirstTitled(result.linkedContacts \o result.potentialContacts,
                         MainContactOfDetails)

\* a linked contact with the name and a position gives the title
LinkedTitleWins ==
    (/\ DetailsReturned
     /\ MainContactOfDetails # <<>>
     /\ FirstTitled(result.linkedContacts, MainContactOfDetails) # <<>>)
    => result.opportunityInfo.mainContactJobTitle
           = FirstTitled(result.linkedContacts, MainContactOfDetails)

\* the SQL contact as the caller is to see it, and the sheet contact
SqlContactView(contact, comps) ==
    [field \in DOMAIN contact \cup {"position", "companyName"} |->
        IF field = "position"
        THEN (IF Has(contact, "jobTitle") /\ contact.jobTitle # <<>> THEN contact.jobTitle
              ELSE IF Has(contact, "position") THEN contact.position ELSE <<>>)
        ELSE IF field = "companyName"
        THEN (IF \E i \in 1..Len(comps) : comps[i].companyId = contact.companyId
                                          /\ comps[i].companyName # <<>>
              THEN (CHOOSE n \in {comps[i].companyName : i \in 1..Len(comps)} :
                      \E i \in 1..Len(comps) :
                          /\ comps[i].companyId = contact.companyId
                          /\ comps[i].companyName = n)
              ELSE AsText(contact.companyId))
        ELSE contact[field]]

SheetContactIsResult ==
    LET list == opInput.sheet.list
        ids == {i \in 1..Len(list) : list[i].contactId = opInput.contactId}
    IN  IF ids = {} THEN ToString(result) = ToString(Null)
        ELSE /\ ToString(result) # ToString(Null)
             /\ \E i \in ids :
                  /\ \A j \in ids : i <= j
                  /\ [f \in DOMAIN result \ {"companyName"} |-> result[f]] = list[i]

SqlContactIsResult ==
    /\ outcome = "return"
    /\ ToString(result) # ToString(Null)
    /\ result = SqlContactView(opInput.sql.list[1], opInput.comps.list)
    /\ "contactCoreReader.getContactList" \notin FnsCalled

FallbackContactIsResult ==
    /\ "contactSqlReader.getContacts" \notin FnsCalled
    /\ outcome = "return" => SheetContactIsResult

\* getContactById as stated: every contact the SQL reader returns is the
\* result, and the sheet list is not read for it
ContactByIdConvergenceAsStated ==
    opName = "getContactById"
    => IF opInput.sql.kind = "list" THEN SqlContactIsResult
       ELSE FallbackContactIsResult

(***************************************************************************)
(* C35  getContactById convergence: a contact the SQL reader returns for   *)
(* the id is the result, with position and companyName mapped, and the     *)
(* sheet contact list is not read, provided the company list read for the  *)
(* name succeeds; when the SQL reader throws, is absent or returns no      *)
(* contact, and also when that company list read fails, the result is the  *)
(* contact with the id from the CORE sheet list read with forceSheet true, *)
(* or null when the sheet has none, and the call fails exactly when the    *)
(* CORE reader is absent or a fallback read fails; the SQL list reader     *)
(* getContacts is never used.                                              *)
(***************************************************************************)
ContactByIdConvergence ==
    opName = "getContactById"
    => IF opInput.sql.kind = "list" /\ opInput.comps.kind = "list"
       THEN SqlContactIsResult
       ELSE /\ FallbackContactIsResult
            /\ outcome = "throw"
                 <=> (opInput.sheet.kind # "list" \/ opInput.sheetComps.kind # "list")
            /\ opInput.sheet.kind # "absent"
                 => "contactCoreReader.getContactList" \in FnsCalled

\* the SQL contact was there, its company read failed, and the sheet
\* contact came back
ContactByIdConvergenceWitness ==
    /\ opName = "getContactById"
    /\ outcome = "return"
    /\ opInput.sql.kind = "list"
    /\ opInput.comps.kind = "throw"
    /\ opInput.sheet.kind = "list"
    /\ ToString(result) # ToString(Null)
    /\ result.contactId = opInput.contactId
    /\ result.position = <<"C", "E", "O">>

\* the list getAnnouncements fetched, and the time an announcement counts with
FetchedAnnouncements ==
    IF opInput.sql.kind = "list" THEN opInput.sql.list ELSE opInput.sheet.list

UpdateTimeOf(a) == IF a.lastUpdateTime = "" THEN 0 ELSE getTime(a.lastUpdateTime)

Occurrences(list, a) == Cardinality({i \in 1..Len(list) : list[i] = a})

AnnouncementsReturned == opName = "getAnnouncements" /\ outcome = "return"

(***************************************************************************)
(* C36  getAnnouncements returns exactly the fetched announcements whose   *)
(* status is published, every pinned announcement before every unpinned    *)
(* one and, within the same pinned state, in non-increasing lastUpdateTime *)
(* order, a missing lastUpdateTime counting as the epoch.                  *)
(***************************************************************************)
PublishedPinnedFirstNewestFirst ==
    AnnouncementsReturned
    => /\ \A i \in 1..Len(FetchedAnnouncements) :
             Occurrences(result, FetchedAnnouncements[i])
                 = IF FetchedAnnouncements[i].status = Published
                   THEN Occurrences(FetchedAnnouncements, FetchedAnnouncements[i])
                   ELSE 0
       /\ \A i \in 1..Len(result) :
             /\ result[i].status = Published
             /\ Occurrences(FetchedAnnouncements, result[i]) > 0
       /\ \A i, j \in 1..Len(result) :
             i < j => /\ result[j].isPinned => result[i].isPinned
                      /\ result[i].isPinned = result[j].isPinned
                            => UpdateTimeOf(result[i]) >= UpdateTimeOf(result[j])

\* an announcement without lastUpdateTime was fetched before a dated one of
\* the same pinned state and is returned after it
PublishedPinnedFirstNewestFirstWitness ==
    /\ AnnouncementsReturned
    /\ Len(FetchedAnnouncements) = 2
    /\ Len(result) = 2
    /\ FetchedAnnouncements[1].lastUpdateTime = ""
    /\ FetchedAnnouncements[1].isPinned = FetchedAnnouncements[2].isPinned
    /\ result[1] = FetchedAnnouncements[2]
    /\ result[2] = FetchedAnnouncements[1]

(***************************************************************************)
(* Company-name normalization over bounded names                           *)
(***************************************************************************)
\* longest name normalized
MaxNameLen == 4

\* the characters of the legal-entity suffixes, parentheses, the space and
\* letters of both cases
NameChars == {"U80A1", "U4EFD", "U6709", "U9650", "U516C", "U53F8", "(", ")", " ", "a", "A"}

NormalizeInit ==
    /\ opName = "none"
    /\ opInput \in {[name |-> s] : s \in SeqUpTo(NameChars, MaxNameLen)}
    /\ calls = <<>>
    /\ outcome = "none"
    /\ result = <<>>
    /\ error = ""
    /\ written = <<>>
    /\ storeRows = <<>>
    /\ pending = <<>>

\* the name is normalized, as createCompany's lookup and the joins do
Normalize ==
    /\ opName = "none"
    /\ opName' = "_normalizeCompanyName"
    /\ outcome' = "return"
    /\ result' = _normalizeCompanyName(opInput.name)
    /\ UNCHANGED <<opInput, calls, error, written, storeRows, pending>>

\* the normalized name is kept as a name and is normalized when it is
\* looked up
NormalizeStored ==
    /\ opName = "_normalizeCompanyName"
    /\ opName' = "_getCompanyByName"
    /\ opInput' = [name |-> result]
    /\ result' = _normalizeCompanyName(result)
    /\ UNCHANGED <<calls, outcome, error, written, storeRows, pending>>

NormalizeNext == Normalize \/ NormalizeStored

NormalizeSpec == NormalizeInit /\ [][NormalizeNext]_vars

(***************************************************************************)
(* C37  Company-name normalization is idempotent: for every name s,        *)
(* _normalizeCompanyName(_normalizeCompanyName(s)) is                      *)
(* _normalizeCompanyName(s), so a stored normalized name and a freshly     *)
(* normalized lookup name compare equal.                                   *)
(***************************************************************************)
NormalizationIdempotent ==
    opName = "_getCompanyByName" => result = opInput.name

\* for a name without a suffix character, normalizing twice is normalizing
\* once
PlainNameNormalizationIdempotent ==
    (/\ opName = "_normalizeCompanyName"
     /\ \A i \in 1..Len(opInput.name) : opInput.name[i] \in {"(", ")", " ", "a", "A"})
    => _normalizeCompanyName(result) = result

(***************************************************************************)
(* CompanyService.createCompany, split at its awaits: the lookup of the    *)
(* name, then the writer call.  The SQL store holds what the writer        *)
(* created; the sheet is the copy the lookup falls back to.                *)
(***************************************************************************)
\* most companies in the SQL store
MaxStoreRows == 3

Requests == {1, 2}

NoStep == [step |-> "none"]

CompanyStoreInit ==
    /\ opName = "none"
    /\ opInput = <<>>
    /\ calls = <<>>
    /\ outcome = "none"
    /\ result = <<>>
    /\ error = ""
    /\ written = <<>>
    /\ storeRows \in {<<>>, <<[company_id |-> "COMP_1", company_name |-> NameAcme]>>}
    /\ pending = [r \in Requests |-> NoStep]

\* const existing = await this._getCompanyByName(companyName): the SQL
\* reader returns the store or throws, the sheet reader returns the sheet
CreateCompanyCheck(r) ==
    /\ pending[r] = NoStep
    /\ Len(storeRows) + Cardinality({q \in Requests : pending[q] # NoStep}) < MaxStoreRows
    /\ \E companyName \in {NameAcme, NameTech, NameTechNote},
          sqlOut \in {Threw, Returned(storeRows)} :
         LET Checked(g) ==
                 IF g.ok /\ ~g.val.found
                 THEN /\ pending' = [pending EXCEPT ![r] =
                                        [step |-> "write", companyName |-> companyName]]
                      /\ calls' = calls \o g.calls
                 ELSE UNCHANGED <<pending, calls>>
         IN  Checked(_getCompanyByName(companyName, sqlOut,
                                       Returned(<<CHOOSE c \in SheetCompanyRows :
                                                      c.companyId = "COMP_1">>)))
    /\ UNCHANGED <<opName, opInput, outcome, result, error, written, storeRows>>

\* await this.companySqlWriter.createCompany(dataToWrite, modifier) with the
\* id generated from the clock and a random number; a writer that fails
\* leaves the store as it is and is left out
CreateCompanyWrite(r) ==
    /\ pending[r] # NoStep
    /\ storeRows' = Append(storeRows,
                           [company_id |-> <<"COMP_N1", "COMP_N2", "COMP_N3", "COMP_N4">>[Len(storeRows) + 1],
                            company_name |-> pending[r].companyName])
    /\ calls' = Append(calls, CallData("companySqlWriter.createCompany", 0,
                                       [companyName |-> pending[r].companyName]))
    /\ pending' = [pending EXCEPT ![r] = NoStep]
    /\ UNCHANGED <<opName, opInput, outcome, result, error, written>>

CompanyStoreNext == \E r \in Requests : CreateCompanyCheck(r) \/ CreateCompanyWrite(r)

CompanyStoreSpec == CompanyStoreInit /\ [][CompanyStoreNext]_vars

StoredNames == [i \in 1..Len(storeRows) |-> _normalizeCompanyName(storeRows[i].company_name)]

(***************************************************************************)
(* C38  No duplicate companies after any sequence or interleaving of       *)
(* createCompany calls: starting from a store with no two companies of the *)
(* same normalized name, the store holds at most one company per           *)
(* normalized name, also when the lookup and the write of two calls        *)
(* interleave and when the SQL reader fails and the sheet serves the       *)
(* lookup.                                                                 *)
(***************************************************************************)
NoDuplicateCompanies ==
    \A i, j \in 1..Len(StoredNames) : StoredNames[i] = StoredNames[j] => i = j

\* the lookups all found the SQL store and read it, and two requests
\* created a company of one normalized name
DuplicateWithoutFallback ==
    /\ ~NoDuplicateCompanies
    /\ \A i \in 1..Len(calls) : calls[i].fn # "companyReader.getCompanyList"

(***************************************************************************)
(* EventLogService.updateEventLog and deleteEventLog, split at their       *)
(* awaits: the sheet read that resolves the event, then each writer call.  *)
(* storeRows is the event-log sheet, opInput the set of the inputs of the  *)
(* operations begun.                                                       *)
(***************************************************************************)
\* most operations begun
MaxEventOps == 3

InitialEvents ==
    SheetEventRows \cup {[eventId |-> "E4", eventType |-> "Call", rowIndex |-> 6,
                          createdTime |-> "", opportunityId |-> "", companyId |-> ""]}

EventStoreInit ==
    /\ opName = "none"
    /\ opInput = {}
    /\ calls = <<>>
    /\ outcome = "none"
    /\ result = <<>>
    /\ error = ""
    /\ written = <<>>
    /\ storeRows = InitialEvents
    /\ pending = [r \in Requests |-> NoStep]

\* const logs = await this.eventReader.getEventLogs() and the resolution of
\* the event: what the request keeps for its writer calls
EventLogRead(r) ==
    LET logs == CHOOSE l \in [1..Cardinality(storeRows) -> storeRows] :
                    \A x \in storeRows : \E i \in 1..Cardinality(storeRows) : l[i] = x
        Update(eventId, data) ==
            LET original == OriginalEvent(AsText(eventId), data, logs)
                rowIndex == ResolvedRowIndex(AsText(eventId), logs)
            IN  IF ~rowIndex.ok THEN NoStep
                ELSE IF IsMove(original, data, logs)
                     THEN [step |-> "moveDelete", original |-> logs[original], data |-> data]
                     ELSE [step |-> "update", rowIndex |-> rowIndex.n, data |-> data]
        Delete(eventId) ==
            LET T(l) == l.eventId = eventId
            IN  IF FindIndex(logs, T) = 0 THEN NoStep
                ELSE [step |-> "delete", rowIndex |-> logs[FindIndex(logs, T)].rowIndex,
                      eventType |-> logs[FindIndex(logs, T)].eventType]
    IN  /\ pending[r] = NoStep
        /\ CountCalls(calls, "eventReader.getEventLogs") < MaxEventOps
        /\ \E eventId \in {"E1", "E2"}, eventType \in {"Call", "Meeting", ""} :
             /\ opInput' = opInput \cup {[eventId |-> eventId, eventType |-> eventType]}
             /\ pending' = [pending EXCEPT ![r] =
                               IF eventType = "" THEN Delete(eventId)
                               ELSE Update(eventId, [eventId |-> eventId,
                                                     eventType |-> eventType,
                                                     eventName |-> "n"])]
        /\ calls' = Append(calls, Call("eventReader.getEventLogs"))
        /\ UNCHANGED <<opName, outcome, result, error, written, storeRows>>

\* the next writer call of the request: deleteEvent, the delete and then
\* the create of a move, or updateEvent, which rewrites the row of the
\* data's partition without its identity columns
EventLogWrite(r) ==
    LET p == pending[r]
        Updated(x) ==
            IF x.eventType = p.data.eventType /\ x.rowIndex = p.rowIndex
            THEN SetField(x, "eventName", p.data.eventName)
            ELSE x
    IN  /\ p # NoStep
        /\ storeRows' =
              IF p.step = "delete" THEN SheetDelete(storeRows, p.rowIndex, p.eventType)
              ELSE IF p.step = "moveDelete"
                   THEN SheetDelete(storeRows, p.original.rowIndex, p.original.eventType)
              ELSE IF p.step = "moveCreate" THEN SheetCreate(storeRows, p.payload)
              ELSE {Updated(x) : x \in storeRows}
        /\ pending' = [pending EXCEPT ![r] =
                          IF p.step = "moveDelete"
                          THEN [step |-> "moveCreate", payload |-> MovePayload(p.original, p.data)]
                          ELSE NoStep]
        /\ calls' = Append(calls, Call(IF p.step = "moveCreate" THEN "eventWriter.createEventLog"
                                       ELSE IF p.step = "update" THEN "eventWriter.updateEventLog"
                                       ELSE "eventWriter.deleteEventLog"))
        /\ UNCHANGED <<opName, opInput, outcome, result, error, written>>

EventStoreNext == \E r \in Requests : EventLogRead(r) \/ EventLogWrite(r)

EventStoreSpec == EventStoreInit /\ [][EventStoreNext]_vars

AddressedEvents == {i.eventId : i \in opInput}

(***************************************************************************)
(* C39  Event identity stays unique under interleaving: from a store in    *)
(* which every eventId occurs once, after any interleaving of              *)
(* updateEventLog (in place or move) and deleteEventLog on existing        *)
(* events, every eventId occurs at most once across all partitions and no  *)
(* event other than the ones these operations address has been deleted or  *)
(* modified.                                                               *)
(***************************************************************************)
EventIdentityUnique ==
    /\ \A x, y \in storeRows : x.eventId = y.eventId => x = y
    /\ \A e \in InitialEvents : e.eventId \notin AddressedEvents => e \in storeRows

\* the events no operation addressed are in the store as they were
UnaddressedEventsKept ==
    \A e \in InitialEvents : e.eventId \notin AddressedEvents => e \in storeRows

(***************************************************************************)
(* OpportunityService.updateOpportunity and deleteOpportunity, split at    *)
(* their awaits: the forced sheet read that resolves the row, then the     *)
(* writer call on the row index.  storeRows is the opportunity sheet: the  *)
(* row index of a record is its position, the first record being row 2,    *)
(* and deleting a row moves the rows below it up.                          *)
(***************************************************************************)
\* most rows of the opportunity sheet, most operations begun
MaxOpportunityRows == 4

MaxOpportunityOps == 3

OpportunityRowInit ==
    /\ opName = "none"
    /\ opInput = <<>>
    /\ calls = <<>>
    /\ outcome = "none"
    /\ result = <<>>
    /\ error = ""
    /\ written = <<>>
    /\ storeRows = <<[opportunityId |-> "OPP1", currentStage |-> "new"],
                     [opportunityId |-> "OPP2", currentStage |-> "new"],
                     [opportunityId |-> "OPP3", currentStage |-> "new"]>>
    /\ pending = [r \in Requests |-> NoStep]

\* const opportunities = await this._fetchOpportunities(true) and the find
\* by rowIndex: the request keeps the row index for its writer call
OpportunityRead(r) ==
    LET sheet == [k \in 1..Len(storeRows) |-> SetField(storeRows[k], "rowIndex", k + 1)]
        Resolved(op, rowIndex, t) ==
            IF t.found
            THEN [step |-> op, rowIndex |-> rowIndex, opportunityId |-> t.row.opportunityId]
            ELSE NoStep
    IN  /\ pending[r] = NoStep
        /\ CountCalls(calls, "opportunityReader.getOpportunities") < MaxOpportunityOps
        /\ \E op \in {"update", "delete"}, rowIndex \in {<<"2">>, <<"3">>, <<"4">>} :
             pending' = [pending EXCEPT ![r] =
                            Resolved(op, rowIndex,
                                     OpportunityTarget(rowIndex, NotInjected, Returned(sheet)))]
        /\ calls' = Append(calls, Call("opportunityReader.getOpportunities"))
        /\ UNCHANGED <<opName, opInput, outcome, result, error, written, storeRows>>

\* await this.opportunityWriter.updateOpportunity(rowIndex, ...) or
\* deleteOpportunity(rowIndex, ...): the write takes effect on the record
\* that is at the row index now; result keeps the id the request resolved
\* and the id of the row written
OpportunityWrite(r) ==
    LET p == pending[r]
        n == parseInt(p.rowIndex).n - 1
    IN  /\ p # NoStep
        /\ storeRows' =
              IF n > Len(storeRows) THEN storeRows
              ELSE IF p.step = "delete"
                   THEN SubSeq(storeRows, 1, n - 1) \o SubSeq(storeRows, n + 1, Len(storeRows))
              ELSE [storeRows EXCEPT ![n] = SetField(storeRows[n], "currentStage", "won")]
        /\ result' = [resolved |-> p.opportunityId,
                      row |-> IF n > Len(storeRows) THEN "" ELSE storeRows[n].opportunityId]
        /\ outcome' = "return"
        /\ pending' = [pending EXCEPT ![r] = NoStep]
        /\ calls' = Append(calls, CallRow(IF p.step = "delete"
                                          THEN "opportunityWriter.deleteOpportunity"
                                          ELSE "opportunityWriter.updateOpportunity", n + 1, ""))
        /\ UNCHANGED <<opName, opInput, error, written>>

\* createOpportunity has one await, the writer call, which adds a row below
\* the last one
OpportunityCreate ==
    /\ Len(storeRows) < MaxOpportunityRows
    /\ ~Called(calls, "opportunityWriter.createOpportunity")
    /\ storeRows' = Append(storeRows, [opportunityId |-> "OPP4", currentStage |-> "new"])
    /\ calls' = Append(calls, Call("opportunityWriter.createOpportunity"))
    /\ UNCHANGED <<opName, opInput, outcome, result, error, written, pending>>

OpportunityRowNext ==
    \/ \E r \in Requests : OpportunityRead(r) \/ OpportunityWrite(r)
    \/ OpportunityCreate

OpportunityRowSpec == OpportunityRowInit /\ [][OpportunityRowNext]_vars

(***************************************************************************)
(* C40  The row written is the row resolved: in updateOpportunity and      *)
(* deleteOpportunity the sheet row on which the writer's update or delete  *)
(* takes effect holds, at the moment of the write, the opportunityId of    *)
(* the record the forced sheet read of the operation found, under any      *)
(* interleaving with other deleteOpportunity and createOpportunity         *)
(* operations that shift rows between the read and the write.              *)
(***************************************************************************)
RowWrittenIsRowResolved ==
    (outcome = "return" /\ result.row # "") => result.row = result.resolved

\* as long as no row was deleted, every write is on the row resolved
RowWrittenIsRowResolvedWithoutDelete ==
    (/\ outcome = "return"
     /\ result.row # ""
     /\ ~Called(calls, "opportunityWriter.deleteOpportunity"))
    => result.row = result.resolved

====
